---- MODULE Spec2Model ----
(***************************************************************************)
(* Batch execution engine of the fish-analysis server                      *)
(* (server/app/api/v1/endpoints/analysis.py): the module-level map         *)
(* batch_analysis_status, the request handlers that create, cancel and     *)
(* read a batch, and the background coroutine _process_batch_images with   *)
(* its semaphore-bounded process_one tasks.                                *)
(*                                                                         *)
(* Every step is one uninterrupted stretch of event-loop code: a request   *)
(* handler (none of them awaits between reading and writing the map), or   *)
(* the code of a coroutine between two suspension points.                  *)
(***************************************************************************)
EXTENDS Integers, Sequences, FiniteSets, TLC

\* ------------------------------------------------------------------ bounds

\* Number of valid images of a batch that is the only one.
MaxTasks == 4
\* Number of valid images over all batches when there are several.
MaxSharedTasks == 1
\* Number of references that resolve to nothing, in a request that has any.
MaxInvalid == 2
\* Number of files of the batch that is read page by page.
MaxPaged == 2

\* Seconds between two readings of the store's clock.
ClockStep == 30
\* Number of clock steps the store is followed for.
MaxTicks == 3

\* --------------------------------------------------------- program constants

\* Settings.CONCURRENCY_LIMIT (default).
CONCURRENCY_LIMIT == 3
\* pixels_per_inch given to CalibrationInfo when a failed result is built.
FailedPixelsPerInch == 0
\* BatchAnalysisRequest.grid_square_size_inches (default; validated > 0).
grid_square_size_inches == 1
\* batch_info["current_image"] when it is None or not set.
NoImage == 0

\* InMemoryStorage._gc_interval_seconds.
_gc_interval_seconds == 60
\* settings.MEMORY_TTL_SECONDS
MEMORY_TTL_SECONDS == 1800
\* InMemoryStorage._last_gc after construction.
InitialLastGc == 0

PENDING == "pending"
PROCESSING == "processing"
COMPLETED == "completed"
FAILED == "failed"

NoMessage == "none"
CancelMessage == "Analysis cancelled by user"
FaultMessage == "validation error for CalibrationInfo"

\* ------------------------------------------------------------------ inputs

\* Batch ids are opaque strings, modelled as numbers. request.batch_id is
\* None, and the id is then a fresh uuid4 (the number of the request), or it is
\* an id the client holds: one a previous request returned.
NoId == 0
Uuid(k) == k
AllBatchIds == 1..(MaxSharedTasks + 1)

\* A classification that takes every reference for a valid one.
PathExistsUnchecked(image_path) == TRUE

\* Image references are numbers: 1..MaxTasks are files on disk, the ones above
\* resolve to nothing.
PathExists(image_path) == image_path \in 1..MaxTasks

\* The request with ni dangling references followed by nv existing ones.
Request(nv, ni) ==
    [i \in 1..(nv + ni) |-> IF i <= ni THEN MaxTasks + i ELSE i - ni]

NotPathExists(image_path) == ~PathExists(image_path)

Min(a, b) == IF a <= b THEN a ELSE b

RECURSIVE Sum(_)
Sum(values) ==
    IF values = <<>> THEN 0 ELSE Head(values) + Sum(Tail(values))

\* ------------------------------------------------------------------- state

VARIABLES
    batch_analysis_status,  \* batch id -> index into dicts (0: no such key)
    dicts,                  \* the batch records, in order of allocation
    bg,                     \* the invocations of _process_batch_images
    response,               \* the HTTP response the step produced (or none)
    cancelled,              \* history: records a Cancel succeeded on
    inflight_at_cancel      \* history: <<k, i>> in flight at such a Cancel

\* The transient store (services/in_memory_storage.py) and its clock.
VARIABLES
    _data,                  \* key -> entry (NoEntry: the key is not in the dict)
    _last_gc,               \* clock value of the last sweep
    now,                    \* time.time()
    returned,               \* what the last store call returned
    put_at                  \* history: key -> the put its entry comes from

\* The threads that call the store, and the store's lock.
VARIABLES
    threads,                \* thread -> the call it is in and its locals
    _lock                   \* the thread that holds the lock (0: free)

\* The population statistics engine (services/population_analysis.py) keeps no
\* state: a step of it is one call, of which the model holds the argument and
\* the value it returned.
VARIABLES
    population_arg,         \* the argument of the call
    population_ret          \* what the call returned (None: not called yet)

population_vars == <<population_arg, population_ret>>

engine_vars == <<batch_analysis_status, dicts, bg, response, cancelled,
                 inflight_at_cancel>>

thread_vars == <<threads, _lock>>

store_vars == <<_data, _last_gc, now, returned, put_at, thread_vars>>

vars == <<batch_analysis_status, dicts, bg, response, cancelled,
          inflight_at_cancel, store_vars, population_vars>>

NoResponse == [op |-> "none"]

Terminal(status) == status \in {COMPLETED, FAILED}

\* Optional values: None, or the value.
None == <<>>

\* A key without the separator between the batch id and the filename.
make_mem_image_key_unseparated(batch_id, filename) ==
    <<"m", "e", "m", ":", "/", "/">> \o batch_id \o filename

\* Keys are strings, modelled as sequences of characters.
make_mem_image_key(batch_id, filename) ==
    <<"m", "e", "m", ":", "/", "/">> \o batch_id \o <<"/">> \o filename

KeyBatchIds == {<<"1">>, <<"1", "0">>}

Keys == {make_mem_image_key(batch_id, <<"a">>) : batch_id \in KeyBatchIds}

\* The prefixes given to delete_prefix: the keys of one batch id, every key
\* of the store, and a prefix longer than any key.
Prefixes ==
    {make_mem_image_key(batch_id, <<>>) : batch_id \in KeyBatchIds}
        \cup {<<"m", "e", "m">>}
        \cup {make_mem_image_key(<<"1", "0">>, <<"a", "b">>)}

\* The blobs put: a payload and its content_type (a string or None).
Blobs == {[data |-> "b1", content_type |-> None],
          [data |-> "b2", content_type |-> <<"image/jpeg">>]}

\* ttl_seconds: None, a number that is not positive, or a positive number.
Ttls == {None, <<0>>, <<ClockStep>>}

\* time.time() when the process starts: the epoch clock is far more than one
\* sweep interval past the initial _last_gc.
StartClock == 2 * _gc_interval_seconds

MaxClock == StartClock + MaxTicks * ClockStep

NoReturn == [op |-> "none"]

\* Two threads call the store; a thread that is in no call is idle.
Threads == {1, 2}
Idle == [pc |-> "idle"]

StoreInit ==
    /\ _data = <<>>
    /\ _last_gc = InitialLastGc
    /\ now = StartClock
    /\ returned = NoReturn
    /\ put_at = <<>>
    /\ threads = [t \in Threads |-> Idle]
    /\ _lock = 0

Init ==
    /\ batch_analysis_status = [b \in AllBatchIds |-> 0]
    /\ dicts = <<>>
    /\ bg = <<>>
    /\ response = NoResponse
    /\ cancelled = {}
    /\ inflight_at_cancel = {}
    /\ StoreInit
    /\ population_arg = <<>>
    /\ population_ret = <<>>

\* ---------------------------------------------------------- transient store

\* d[key] = value on a dict, and del d[key].
SetItem(d, key, value) ==
    [x \in DOMAIN d \cup {key} |-> IF x = key THEN value ELSE d[x]]

DelItem(d, key) == [x \in DOMAIN d \ {key} |-> d[x]]

\* An expiry instant that is the ttl alone, without the clock.
NewExpiryWithoutClock(clock, ttl_seconds) ==
    IF ttl_seconds # None /\ ttl_seconds[1] > 0
    THEN <<ttl_seconds[1]>>
    ELSE None

\* An expiry for every ttl that is given, positive or not.
NewExpiryOfAnyTtl(clock, ttl_seconds) ==
    IF ttl_seconds # None
    THEN <<clock + ttl_seconds[1]>>
    ELSE None

\* expires_at of put: time.time() + ttl_seconds when ttl_seconds is given and
\* positive, None otherwise.
NewExpiry(clock, ttl_seconds) ==
    IF ttl_seconds # None /\ ttl_seconds[1] > 0
    THEN <<clock + ttl_seconds[1]>>
    ELSE None

\* entry.expires_at is not None and entry.expires_at < time.time()
Expired(entry, clock) ==
    entry.expires_at # None /\ entry.expires_at[1] < clock

\* A sweep at every call, whatever the time since the last one.
MaybeGcEveryCall(d, last_gc, clock) ==
    [data |-> [x \in {k \in DOMAIN d : ~Expired(d[k], clock)} |-> d[x]],
     last_gc |-> clock]

\* _maybe_gc at clock value `clock`: nothing within the interval since the
\* last sweep; otherwise every expired entry is deleted and _last_gc is set.
_maybe_gc(d, last_gc, clock) ==
    IF clock - last_gc < _gc_interval_seconds
    THEN [data |-> d, last_gc |-> last_gc]
    ELSE [data |-> [x \in {k \in DOMAIN d : ~Expired(d[k], clock)} |-> d[x]],
          last_gc |-> clock]

\* A write that keeps an entry the key already has.
SetItemIfAbsent(d, key, value) ==
    IF key \in DOMAIN d THEN d ELSE SetItem(d, key, value)

\* self._data[key] = _Entry(...)
StoreEntry(d, key, value) == SetItem(d, key, value)

\* put. The clock is read for expires_at before the lock is taken and again
\* by the sweep: `elapsed` is the time between the two readings.
put(key, data, content_type, ttl_seconds, elapsed) ==
    /\ now + elapsed <= MaxClock
    /\ LET entry == [data |-> data,
                     content_type |-> content_type,
                     expires_at |-> NewExpiry(now, ttl_seconds)]
           gc == _maybe_gc(StoreEntry(_data, key, entry), _last_gc, now + elapsed)
       IN /\ _data' = gc.data
          /\ _last_gc' = gc.last_gc
    /\ now' = now + elapsed
    /\ returned' = [op |-> "put", key |-> key]
    /\ put_at' = SetItem(put_at, key,
                         [time |-> now, ttl_seconds |-> ttl_seconds])
    /\ UNCHANGED <<engine_vars, thread_vars, population_vars>>

\* What get returns on dict d at clock value `clock`: None (a miss) when the
\* key is absent or its entry expired, else the payload and content type.
GetReturn(d, clock, key) ==
    IF key \notin DOMAIN d THEN [hit |-> FALSE]
    ELSE IF d[key].expires_at # None /\ d[key].expires_at[1] < clock
    THEN [hit |-> FALSE]
    ELSE [hit |-> TRUE, data |-> d[key].data,
          content_type |-> d[key].content_type]

\* A read that leaves an expired entry in the dict.
AfterReadKeepsExpired(d, clock, key) == d

\* The dict after a get or an exists: an expired entry found is deleted.
AfterRead(d, clock, key) ==
    IF key \in DOMAIN d /\ Expired(d[key], clock) THEN DelItem(d, key) ELSE d

get(key) ==
    /\ returned' = [op |-> "get", key |-> key,
                    value |-> GetReturn(_data, now, key)]
    /\ _data' = AfterRead(_data, now, key)
    /\ UNCHANGED <<_last_gc, now, put_at, engine_vars, thread_vars, population_vars>>

\* exists that takes an entry for expired at its expiry instant already.
ExistsReturnInclusive(d, clock, key) ==
    IF key \notin DOMAIN d THEN FALSE
    ELSE IF d[key].expires_at # None /\ d[key].expires_at[1] <= clock
    THEN FALSE
    ELSE TRUE

\* What exists returns on dict d at clock value `clock`.
ExistsReturn(d, clock, key) ==
    IF key \notin DOMAIN d THEN FALSE
    ELSE IF d[key].expires_at # None /\ d[key].expires_at[1] < clock
    THEN FALSE
    ELSE TRUE

exists(key) ==
    /\ returned' = [op |-> "exists", key |-> key,
                    value |-> ExistsReturn(_data, now, key)]
    /\ _data' = AfterRead(_data, now, key)
    /\ UNCHANGED <<_last_gc, now, put_at, engine_vars, thread_vars, population_vars>>

\* A delete without the membership test: `del` raises on an absent key.
deleteUnguarded(key) ==
    /\ key \in DOMAIN _data
    /\ _data' = DelItem(_data, key)
    /\ returned' = [op |-> "delete", key |-> key]
    /\ put_at' = DelItem(put_at, key)
    /\ UNCHANGED <<_last_gc, now, engine_vars, thread_vars, population_vars>>

delete(key) ==
    /\ _data' = IF key \in DOMAIN _data THEN DelItem(_data, key) ELSE _data
    /\ returned' = [op |-> "delete", key |-> key]
    /\ put_at' = DelItem(put_at, key)
    /\ UNCHANGED <<_last_gc, now, engine_vars, thread_vars, population_vars>>

\* str.startswith
startswith(k, prefix) ==
    Len(prefix) <= Len(k) /\ SubSeq(k, 1, Len(prefix)) = prefix

\* delete_prefix: every key that starts with the prefix is deleted, and the
\* number of keys deleted is returned.
delete_prefix(prefix) ==
    LET keys == {k \in DOMAIN _data : startswith(k, prefix)}
    IN /\ _data' = [x \in DOMAIN _data \ keys |-> _data[x]]
       /\ returned' = [op |-> "delete_prefix", prefix |-> prefix,
                       value |-> Cardinality(keys)]
       /\ put_at' = [x \in DOMAIN put_at \ keys |-> put_at[x]]
       /\ UNCHANGED <<_last_gc, now, engine_vars, thread_vars, population_vars>>

\* Time passes between two calls.
Tick ==
    /\ now + ClockStep <= MaxClock
    /\ now' = now + ClockStep
    /\ UNCHANGED <<_data, _last_gc, returned, put_at, engine_vars, thread_vars, population_vars>>

StoreNext ==
    \/ \E key \in Keys, blob \in Blobs, ttl_seconds \in Ttls,
          elapsed \in {0, 2 * ClockStep} :
          put(key, blob.data, blob.content_type, ttl_seconds, elapsed)
    \/ \E key \in Keys : get(key)
    \/ \E key \in Keys : exists(key)
    \/ \E key \in Keys : delete(key)
    \/ \E prefix \in Prefixes : delete_prefix(prefix)
    \/ Tick

StoreSpec == Init /\ [][StoreNext]_vars

\* ------------------------------------------------- the store under threads

\* The calls of the methods statement by statement, each by a thread: the
\* thread evaluates the arguments, takes the lock (`with self._lock`), runs
\* the statements of the body one at a time and gives the lock back.

\* The blob a thread puts: each thread has its own payload and content type.
BlobOf(t) ==
    IF t = 1 THEN [data |-> "b1", content_type |-> None]
    ELSE [data |-> "b2", content_type |-> <<"image/jpeg">>]

\* The calls a thread makes: [op, arg], arg being the key or the prefix.
Calls ==
    {[op |-> op, arg |-> key] : op \in {"put", "get", "exists", "delete"},
                                key \in Keys}
        \cup {[op |-> "delete_prefix", arg |-> <<"m", "e", "m">>]}

\* A thread enters the method. put computes expires_at before it takes the
\* lock.
Call(t, call) ==
    /\ threads[t].pc = "idle"
    /\ threads' = [threads EXCEPT ![t] =
                      [pc |-> "lock", op |-> call.op, arg |-> call.arg,
                       expires_at |-> IF call.op = "put"
                                      THEN NewExpiry(now, <<ClockStep>>)
                                      ELSE None,
                       entry |-> None, keys |-> {}, clock |-> 0,
                       ret |-> None]]
    /\ UNCHANGED <<_data, _last_gc, now, returned, put_at, _lock, engine_vars, population_vars>>

\* A lock that any thread can take at any time.
CanAcquireUnlocked(t) == TRUE

\* The lock can be taken by t: it is free (an RLock also lets its owner in).
CanAcquire(t) == _lock = 0 \/ _lock = t

\* with self._lock: the thread waits until it can take the lock.
Acquire(t) ==
    /\ threads[t].pc = "lock"
    /\ CanAcquire(t)
    /\ _lock' = t
    /\ threads' = [threads EXCEPT ![t].pc = "body"]
    /\ UNCHANGED <<_data, _last_gc, now, returned, put_at, engine_vars, population_vars>>

\* The first statement of the body.
Body(t) ==
    LET th == threads[t]
        key == th.arg
    IN /\ th.pc = "body"
       /\ CASE th.op = "put" ->
                 \* self._data[key] = _Entry(...)
                 /\ _data' = StoreEntry(_data, key,
                                 [data |-> BlobOf(t).data,
                                  content_type |-> BlobOf(t).content_type,
                                  expires_at |-> th.expires_at])
                 /\ threads' = [threads EXCEPT ![t].pc = "gc"]
            [] th.op \in {"get", "exists"} ->
                 \* entry = self._data.get(key); if entry is None: return
                 /\ threads' = [threads EXCEPT
                       ![t].entry = IF key \in DOMAIN _data
                                    THEN <<_data[key]>> ELSE None,
                       ![t].pc = IF key \in DOMAIN _data
                                 THEN "check" ELSE "release",
                       ![t].ret = IF th.op = "get" THEN <<[hit |-> FALSE]>>
                                  ELSE <<FALSE>>]
                 /\ UNCHANGED _data
            [] th.op = "delete" ->
                 \* if key in self._data:
                 /\ threads' = [threads EXCEPT
                       ![t].keys = IF key \in DOMAIN _data THEN {key} ELSE {},
                       ![t].pc = IF key \in DOMAIN _data
                                 THEN "del" ELSE "release"]
                 /\ UNCHANGED _data
            [] th.op = "delete_prefix" ->
                 \* keys = [k for k in self._data.keys() if k.startswith(prefix)]
                 /\ threads' = [threads EXCEPT
                       ![t].keys = {k \in DOMAIN _data : startswith(k, key)},
                       ![t].ret = <<Cardinality({k \in DOMAIN _data :
                                                  startswith(k, key)})>>,
                       ![t].pc = "del"]
                 /\ UNCHANGED _data
       /\ UNCHANGED <<_last_gc, now, returned, put_at, _lock, engine_vars, population_vars>>

\* get and exists: the expiry test on the entry that was read.
Check(t) ==
    LET th == threads[t]
        entry == th.entry[1]
    IN /\ th.pc = "check"
       /\ threads' = [threads EXCEPT
             ![t].keys = IF Expired(entry, now) THEN {th.arg} ELSE {},
             ![t].pc = IF Expired(entry, now) THEN "del" ELSE "release",
             ![t].ret = IF Expired(entry, now) THEN th.ret
                        ELSE IF th.op = "get"
                        THEN <<[hit |-> TRUE, data |-> entry.data,
                                content_type |-> entry.content_type]>>
                        ELSE <<TRUE>>]
       /\ UNCHANGED <<_data, _last_gc, now, returned, put_at, _lock,
                      engine_vars, population_vars>>

\* _maybe_gc up to its loop: the interval test, then the list of the
\* expired keys.
Gc(t) ==
    LET th == threads[t]
    IN /\ th.pc = "gc"
       /\ threads' = [threads EXCEPT
             ![t].clock = now,
             ![t].keys = {k \in DOMAIN _data : Expired(_data[k], now)},
             ![t].pc = IF now - _last_gc < _gc_interval_seconds
                       THEN "release" ELSE "gc_del"]
       /\ UNCHANGED <<_data, _last_gc, now, returned, put_at, _lock,
                      engine_vars, population_vars>>

\* del self._data[k] for the keys listed: KeyError when one of them is no
\* longer in the dict. The sweep then sets _last_gc.
Del(t) ==
    LET th == threads[t]
    IN /\ th.pc \in {"del", "gc_del"}
       /\ IF th.keys \subseteq DOMAIN _data
          THEN /\ _data' = [x \in DOMAIN _data \ th.keys |-> _data[x]]
               /\ _last_gc' = IF th.pc = "gc_del" THEN th.clock ELSE _last_gc
               /\ threads' = [threads EXCEPT ![t].pc = "release"]
          ELSE /\ threads' = [threads EXCEPT ![t].pc = "raised"]
               /\ UNCHANGED <<_data, _last_gc, population_vars>>
       /\ UNCHANGED <<now, returned, put_at, _lock, engine_vars, population_vars>>

\* The end of the with block, on return or on an exception: the lock is
\* given back and the call is over.
Release(t) ==
    /\ threads[t].pc \in {"release", "raised"}
    /\ _lock' = 0
    /\ threads' = [threads EXCEPT ![t] = Idle]
    /\ UNCHANGED <<_data, _last_gc, now, returned, put_at, engine_vars, population_vars>>

ThreadNext ==
    \/ \E t \in Threads, call \in Calls : Call(t, call)
    \/ \E t \in Threads : Acquire(t)
    \/ \E t \in Threads : Body(t)
    \/ \E t \in Threads : Check(t)
    \/ \E t \in Threads : Gc(t)
    \/ \E t \in Threads : Del(t)
    \/ \E t \in Threads : Release(t)
    \/ Tick

ThreadSpec == Init /\ [][ThreadNext]_vars

\* ------------------------------------------------- references into the store

\* An image reference that starts with mem:// is modelled as a negative
\* number, -1 and -2 standing for the two keys of Keys.
IsMem(image_path) == image_path < 0

MemRefs == {-1, -2}

MemKey(image_path) ==
    IF image_path = -1
    THEN make_mem_image_key(<<"1">>, <<"a">>)
    ELSE make_mem_image_key(<<"1", "0">>, <<"a">>)

\* A task end that leaves the store entry of its image in place.
CleanupKeysNone(image_paths) == {}

\* The keys deleted by the finally block of process_one for the tasks of
\* the references image_paths: those of the mem:// references.
CleanupKeys(image_paths) ==
    {MemKey(image_path) : image_path \in {p \in image_paths : IsMem(p)}}

\* store.delete(image_path) for each of the keys.
Cleanup(image_paths) ==
    LET keys == CleanupKeys(image_paths)
    IN /\ _data' = [x \in DOMAIN _data \ keys |-> _data[x]]
       /\ put_at' = [x \in DOMAIN put_at \ keys |-> put_at[x]]
       /\ UNCHANGED <<_last_gc, now, returned, thread_vars, population_vars>>

\* ------------------------------------------------------- pydantic validation

\* CalibrationInfo: pixels_per_inch gt=0, grid_square_size_inches gt=0.
CalibrationInfoValid(pixels_per_inch, grid) ==
    pixels_per_inch > 0 /\ grid > 0

\* ----------------------------------------------------------------- Analyzer

\* What one analysis comes to: whether it works, how long it takes, what it
\* detects (the confidence of each detection, 1 for 1.0; an analysis that
\* detects nothing raises and so does not work), which id it draws (`fresh`:
\* the rank of the id among the ids no result of the batch has yet), and how
\* many of the results the batch has collected so far come from an analysis
\* that read the clock after this one did (`later`: the analyses run in worker
\* threads, and the one that finishes first need not have started first).
Outcome(ok, later, fresh, processing_time_seconds, detailed_detections) ==
    [ok |-> ok, later |-> later, fresh |-> fresh,
     processing_time_seconds |-> processing_time_seconds,
     detailed_detections |-> detailed_detections]

\* The outcomes followed where no operation reads the id, the duration or the
\* detections of a result: an analysis works or fails, its clock reading falls
\* anywhere among the others, it takes one second and makes one detection.
Outcomes ==
    {Outcome(ok, later, 1, 1, <<1>>) :
        ok \in BOOLEAN, later \in 0..(MaxTasks - 1)}

\* The text of an image reference: a sequence of characters.
Digit == <<"1", "2", "3", "4", "5", "6", "7", "8", "9">>
Letter == <<"a", "b", "c", "d", "e", "f", "g", "h", "i">>
str(image_path) ==
    IF image_path < 0 THEN <<"m", "e", "m", Digit[0 - image_path]>>
    ELSE <<Digit[image_path]>>

\* str(uuid.uuid4()): 36 characters, hexadecimal digits in groups of 8, 4, 4, 4
\* and 12 with the version 4 and a variant of 8 to b. The ids the model draws
\* from: two of each kind that the searched terms tell apart, those with the
\* character 1 and those without, those with "d-a" and those without.
Uuids ==
    <<
      <<"0", "f", "1", "2", "d", "c", "2", "c", "-", "6", "a", "6",
        "a", "-", "4", "d", "5", "5", "-", "b", "7", "a", "8", "-",
        "6", "c", "4", "5", "b", "8", "e", "5", "3", "b", "e", "f">>,
      <<"e", "8", "b", "2", "c", "0", "6", "d", "-", "a", "9", "f",
        "3", "-", "4", "c", "7", "e", "-", "9", "b", "0", "a", "-",
        "3", "5", "f", "7", "d", "2", "c", "8", "e", "6", "a", "4">>,
      <<"a", "6", "3", "5", "7", "9", "d", "d", "-", "e", "7", "c",
        "f", "-", "4", "7", "2", "d", "-", "8", "0", "a", "2", "-",
        "7", "c", "a", "6", "9", "3", "5", "d", "d", "0", "5", "5">>,
      <<"9", "1", "c", "7", "e", "4", "5", "d", "-", "a", "3", "b",
        "2", "-", "4", "f", "6", "8", "-", "8", "d", "0", "e", "-",
        "5", "b", "6", "f", "2", "a", "7", "c", "9", "e", "3", "1">>,
      <<"4", "a", "7", "3", "1", "f", "5", "c", "-", "8", "b", "f",
        "7", "-", "4", "6", "d", "a", "-", "a", "7", "e", "e", "-",
        "4", "0", "5", "d", "4", "0", "2", "d", "e", "6", "a", "5">>,
      <<"2", "f", "8", "c", "4", "4", "0", "d", "-", "a", "6", "e",
        "7", "-", "4", "b", "9", "3", "-", "8", "c", "5", "2", "-",
        "0", "e", "9", "f", "7", "b", "3", "a", "6", "d", "5", "8">>,
      <<"7", "c", "9", "e", "6", "6", "7", "9", "-", "7", "4", "2",
        "5", "-", "4", "0", "d", "e", "-", "9", "4", "4", "b", "-",
        "e", "0", "7", "f", "c", "2", "f", "9", "0", "a", "e", "7">>,
      <<"1", "b", "3", "e", "7", "f", "9", "d", "-", "a", "b", "5",
        "4", "-", "4", "c", "6", "2", "-", "9", "e", "0", "8", "-",
        "f", "7", "a", "2", "c", "5", "d", "6", "e", "8", "1", "0">>
    >>

\* The ids that no result of the batch has yet.
NotDrawn(results) ==
    LET New(u) == \A j \in DOMAIN results : results[j].analysis_id # u
    IN SelectSeq(Uuids, New)

\* The id an analysis draws: any of those that no result of the batch has.
uuid4(results, fresh) == NotDrawn(results)[fresh]

\* The outcomes followed under the paginated read, which sorts by duration and
\* by confidence and searches the ids: as many durations as the batch has
\* files, one sure detection or a second one of confidence 0, and any of the
\* ids.
MeasuredOutcomes ==
    {Outcome(ok, later, fresh, processing_time_seconds, detailed_detections) :
        ok \in BOOLEAN, later \in 0..(MaxPaged - 1),
        fresh \in DOMAIN Uuids,
        processing_time_seconds \in 1..MaxPaged,
        detailed_detections \in {<<1>>, <<1, 0>>}}

\* FishMeasurementService.process_image: a completed result when the analysis
\* works; otherwise its except block builds a failed result, whose
\* CalibrationInfo is validated, and a validation error leaves the call as an
\* exception. processed_at is start_time, the clock read when the call
\* starts; only the order of the readings of a batch matters, and start_time
\* is the rank of the reading among them.
process_image(image_path, grid, outcome, start_time, analysis_id) ==
    LET result(status) ==
            [analysis_id |-> analysis_id,
             image_path |-> image_path,
             status |-> status,
             detailed_detections |->
                 IF status = COMPLETED THEN outcome.detailed_detections
                 ELSE <<>>,
             processing_time_seconds |-> outcome.processing_time_seconds,
             processed_at |-> start_time]
    IN IF outcome.ok
       THEN [raised |-> FALSE, result |-> result(COMPLETED)]
       ELSE IF CalibrationInfoValid(FailedPixelsPerInch, grid)
            THEN [raised |-> FALSE, result |-> result(FAILED)]
            ELSE [raised |-> TRUE, result |-> result(FAILED)]

\* ------------------------------------------------------------------- Create

\* A record whose total_images counts every reference of the request.
NewBatchInfoAllImages(batch_id, valid_images, invalid_images) ==
    [batch_id |-> batch_id,
     status |-> PENDING,
     total_images |-> Len(valid_images) + Len(invalid_images),
     completed_images |-> 0,
     failed_images |-> Len(invalid_images),
     results |-> <<>>,
     invalid_images |-> invalid_images,
     current_image |-> NoImage,
     error_message |-> NoMessage,
     completed_at |-> FALSE]

NewBatchInfo(batch_id, valid_images, invalid_images) ==
    [batch_id |-> batch_id,
     status |-> PENDING,
     total_images |-> Len(valid_images),
     completed_images |-> 0,
     failed_images |-> Len(invalid_images),
     results |-> <<>>,
     invalid_images |-> invalid_images,
     current_image |-> NoImage,
     error_message |-> NoMessage,
     completed_at |-> FALSE]

NewBackgroundTask(batch_id, valid_images) ==
    [batch_id |-> batch_id,
     image_paths |-> valid_images,
     pc |-> "scheduled",
     batch_info |-> 0,
     results |-> <<>>,
     semaphore |-> 0,
     tasks |-> [i \in 1..Len(valid_images) |-> "created"],
     collected |-> [i \in 1..Len(valid_images) |-> 0]]

TasksCreated == LET Count[k \in 0..Len(bg)] ==
                        IF k = 0 THEN 0 ELSE Count[k - 1] + Len(bg[k].image_paths)
                IN Count[Len(bg)]

InvalidSeen == LET Count[k \in 0..Len(dicts)] ==
                       IF k = 0 THEN 0 ELSE Count[k - 1] + Len(dicts[k].invalid_images)
               IN Count[Len(dicts)]

\* The ids a client can put in request.batch_id.
HeldBatchIds == {b \in AllBatchIds : batch_analysis_status[b] # 0}

\* The handler on the list `images`. A mem:// reference is valid when
\* store.exists finds its entry (a call that deletes an entry found expired),
\* any other reference when the path exists on disk.
StartBatch(request_batch_id, images) ==
    LET batch_id == IF request_batch_id = NoId THEN Uuid(Len(dicts) + 1)
                    ELSE request_batch_id
        Valid(image_path) ==
            IF IsMem(image_path)
            THEN ExistsReturn(_data, now, MemKey(image_path))
            ELSE PathExists(image_path)
        Invalid(image_path) ==
            IF IsMem(image_path)
            THEN ~ExistsReturn(_data, now, MemKey(image_path))
            ELSE NotPathExists(image_path)
        valid_images == SelectSeq(images, Valid)
        invalid_images == SelectSeq(images, Invalid)
        found_expired == {key \in CleanupKeys({images[i] : i \in DOMAIN images}) :
                            key \in DOMAIN _data /\ Expired(_data[key], now)}
    IN /\ _data' = [x \in DOMAIN _data \ found_expired |-> _data[x]]
       /\ UNCHANGED <<_last_gc, now, returned, put_at, thread_vars, population_vars>>
       /\ IF Len(images) = 0
          THEN /\ response' = [op |-> "create", code |-> 422]
               /\ UNCHANGED <<batch_analysis_status, dicts, bg, population_vars>>
          ELSE IF Len(valid_images) = 0
          THEN /\ response' = [op |-> "create", code |-> 400]
               /\ UNCHANGED <<batch_analysis_status, dicts, bg, population_vars>>
          ELSE /\ dicts' = Append(dicts,
                       NewBatchInfo(batch_id, valid_images, invalid_images))
               /\ batch_analysis_status' =
                       [batch_analysis_status EXCEPT ![batch_id] = Len(dicts) + 1]
               /\ bg' = Append(bg, NewBackgroundTask(batch_id, valid_images))
               /\ response' = [op |-> "create", code |-> 200,
                               batch_id |-> batch_id,
                               total_images |-> Len(valid_images),
                               invalid_images |-> invalid_images]
       /\ UNCHANGED <<cancelled, inflight_at_cancel, population_vars>>

\* Create with a request of ni dangling references and nv files on disk.
start_batch_analysis(request_batch_id, nv, ni) ==
    /\ TasksCreated + nv <= (IF Len(dicts) = 0 THEN MaxTasks
                             ELSE MaxSharedTasks)
    /\ InvalidSeen + ni <= MaxInvalid
    /\ StartBatch(request_batch_id, Request(nv, ni))

\* ------------------------------------------------- _process_batch_images

\* A semaphore created with one permit too many.
NewSemaphoreOffByOne == CONCURRENCY_LIMIT + 1

\* asyncio.Semaphore(settings.CONCURRENCY_LIMIT): the initial permit count.
NewSemaphore == CONCURRENCY_LIMIT

\* The coroutine starts: it looks the record up by id, marks it PROCESSING
\* and creates one task per image; the tasks run on the next loop pass.
ProcessBatchStart(k) ==
    /\ bg[k].pc = "scheduled"
    /\ LET obj == batch_analysis_status[bg[k].batch_id]
       IN /\ dicts' = [dicts EXCEPT ![obj].status = PROCESSING]
          /\ bg' = [bg EXCEPT ![k].pc = "gather",
                              ![k].batch_info = obj,
                              ![k].results = <<>>,
                              ![k].semaphore = NewSemaphore]
    /\ response' = NoResponse
    /\ UNCHANGED <<batch_analysis_status, cancelled, inflight_at_cancel, store_vars, population_vars>>

\* First loop pass after create_task: the tasks run one after the other, in
\* index order, each up to its first suspension. A task that finds a permit
\* checks the cancellation flag: cancelled, it returns and gives the permit
\* back; otherwise it sets current_image and suspends in asyncio.to_thread.
\* A task that finds no permit suspends in the semaphore's queue.
LaunchTasks(k) ==
    /\ bg[k].pc = "gather"
    /\ Len(bg[k].tasks) > 0
    /\ \A i \in DOMAIN bg[k].tasks : bg[k].tasks[i] = "created"
    /\ LET obj == bg[k].batch_info
           n == Len(bg[k].image_paths)
           started == Min(bg[k].semaphore, n)
       IN IF dicts[obj].status = FAILED
          THEN /\ bg' = [bg EXCEPT ![k].tasks = [i \in 1..n |-> "skipped"]]
               /\ Cleanup({bg[k].image_paths[i] : i \in 1..n})
               /\ UNCHANGED dicts
          ELSE /\ bg' = [bg EXCEPT
                           ![k].tasks = [i \in 1..n |->
                               IF i <= started THEN "running" ELSE "waiting"],
                           ![k].semaphore = bg[k].semaphore - started]
               /\ dicts' = [dicts EXCEPT
                           ![obj].current_image = bg[k].image_paths[started]]
               /\ UNCHANGED <<store_vars, population_vars>>
    /\ response' = NoResponse
    /\ UNCHANGED <<batch_analysis_status, cancelled, inflight_at_cancel, population_vars>>

\* The head of the semaphore's queue (FIFO: the lowest waiting index).
FirstWaiter(k, i) ==
    /\ bg[k].tasks[i] = "waiting"
    /\ \A j \in 1..(i - 1) : bg[k].tasks[j] # "waiting"

\* A queued task is woken by a release and takes the permit: the same flag
\* check, then either return (permit given back) or the Analyzer call.
\* `collected` keeps how many results the list held when the call was made:
\* their analyses had read the clock before this one started.
ProcessOneResume(k, i) ==
    /\ FirstWaiter(k, i)
    /\ bg[k].semaphore > 0
    /\ LET obj == bg[k].batch_info
       IN IF dicts[obj].status = FAILED
          THEN /\ bg' = [bg EXCEPT ![k].tasks[i] = "skipped"]
               /\ Cleanup({bg[k].image_paths[i]})
               /\ UNCHANGED dicts
          ELSE /\ bg' = [bg EXCEPT ![k].tasks[i] = "running",
                                   ![k].semaphore = bg[k].semaphore - 1,
                                   ![k].collected[i] = Len(bg[k].results)]
               /\ dicts' = [dicts EXCEPT
                               ![obj].current_image = bg[k].image_paths[i]]
               /\ UNCHANGED <<store_vars, population_vars>>
    /\ response' = NoResponse
    /\ UNCHANGED <<batch_analysis_status, cancelled, inflight_at_cancel, population_vars>>

\* The Analyzer call of task i comes back. A returned result is appended and
\* completed_images incremented; an exception increments failed_images and
\* a failed result is built, whose CalibrationInfo is validated: when that
\* validation fails the exception leaves process_one. The permit is released
\* on every path, and the finally block deletes the store entry of a mem://
\* reference. The Analyzer looks its image up on disk, so that it raises on
\* a mem:// reference.
\* The clock reading of the call falls before those of the last
\* outcome.later results of the list, which cannot be results the list held
\* already when the call was made; the ranks of the readings that follow it
\* move up by one.
ProcessOneFinish(k, i, outcome) ==
    /\ bg[k].tasks[i] = "running"
    /\ IsMem(bg[k].image_paths[i]) => ~outcome.ok
    /\ outcome.fresh <= Len(NotDrawn(bg[k].results))
    /\ LET obj == bg[k].batch_info
           image_path == bg[k].image_paths[i]
           results == bg[k].results
           start_time == Len(results) + 1 - outcome.later
           out == process_image(image_path, grid_square_size_inches, outcome,
                                start_time, uuid4(results, outcome.fresh))
           failed_result == [analysis_id |-> uuid4(results, outcome.fresh),
                             image_path |-> image_path,
                             status |-> FAILED,
                             detailed_detections |-> <<>>,
                             processing_time_seconds |-> 0,
                             processed_at |-> Len(results) + 1]
           read_after == [j \in DOMAIN results |->
                            IF results[j].processed_at >= start_time
                            THEN [results[j] EXCEPT !.processed_at = @ + 1]
                            ELSE results[j]]
       IN IF ~out.raised
          THEN /\ outcome.later <= Len(results)
               /\ \A j \in 1..bg[k].collected[i] :
                     results[j].processed_at < start_time
               /\ bg' = [bg EXCEPT
                           ![k].results = Append(read_after, out.result),
                           ![k].tasks[i] = "done",
                           ![k].semaphore = bg[k].semaphore + 1]
               /\ dicts' = [dicts EXCEPT ![obj].completed_images =
                                           dicts[obj].completed_images + 1]
          ELSE /\ dicts' = [dicts EXCEPT ![obj].failed_images =
                                           dicts[obj].failed_images + 1]
               /\ IF CalibrationInfoValid(FailedPixelsPerInch,
                                          grid_square_size_inches)
                  THEN bg' = [bg EXCEPT
                           ![k].results = Append(bg[k].results, failed_result),
                           ![k].tasks[i] = "done",
                           ![k].semaphore = bg[k].semaphore + 1]
                  ELSE bg' = [bg EXCEPT
                           ![k].tasks[i] = "raised",
                           ![k].semaphore = bg[k].semaphore + 1]
    /\ Cleanup({bg[k].image_paths[i]})
    /\ response' = NoResponse
    /\ UNCHANGED <<batch_analysis_status, cancelled, inflight_at_cancel, population_vars>>

\* gather returns once every task has returned: the collected list is
\* published and the batch becomes COMPLETED unless its status is FAILED.
ProcessBatchFinalize(k) ==
    /\ bg[k].pc = "gather"
    /\ \A i \in DOMAIN bg[k].tasks : bg[k].tasks[i] \in {"done", "skipped"}
    /\ LET obj == bg[k].batch_info
       IN dicts' = [dicts EXCEPT
                      ![obj].current_image = NoImage,
                      ![obj].results = bg[k].results,
                      ![obj].status = IF dicts[obj].status # FAILED
                                      THEN COMPLETED ELSE dicts[obj].status,
                      ![obj].completed_at = TRUE]
    /\ bg' = [bg EXCEPT ![k].pc = "finalized"]
    /\ response' = NoResponse
    /\ UNCHANGED <<batch_analysis_status, cancelled, inflight_at_cancel, store_vars, population_vars>>

\* gather raises the first exception of a task: the outer except block marks
\* the record now filed under the batch id FAILED. The other tasks keep
\* running.
ProcessBatchFault(k) ==
    /\ bg[k].pc = "gather"
    /\ \E i \in DOMAIN bg[k].tasks : bg[k].tasks[i] = "raised"
    /\ LET obj == batch_analysis_status[bg[k].batch_id]
       IN dicts' = [dicts EXCEPT ![obj].status = FAILED,
                                 ![obj].error_message = FaultMessage]
    /\ bg' = [bg EXCEPT ![k].pc = "faulted"]
    /\ response' = NoResponse
    /\ UNCHANGED <<batch_analysis_status, cancelled, inflight_at_cancel, store_vars, population_vars>>

\* ------------------------------------------------------------------- Cancel

\* The tasks in flight that write into record obj.
InFlight(obj) ==
    {<<k, i>> \in (DOMAIN bg) \X (1..MaxTasks + 1) :
        /\ i \in DOMAIN bg[k].tasks
        /\ bg[k].batch_info = obj
        /\ bg[k].tasks[i] = "running"}

\* Cancel with the check of the status left to COMPLETED alone.
CannotCancelCompletedOnly(status) == status = COMPLETED

\* The statuses cancel_batch_analysis refuses.
CannotCancel(status) == status \in {COMPLETED, FAILED}

cancel_batch_analysis(batch_id) ==
    LET obj == batch_analysis_status[batch_id]
    IN IF obj = 0
       THEN /\ response' = [op |-> "cancel", code |-> 404]
            /\ UNCHANGED <<batch_analysis_status, dicts, bg, cancelled,
                           inflight_at_cancel, store_vars, population_vars>>
       ELSE IF CannotCancel(dicts[obj].status)
       THEN /\ response' = [op |-> "cancel", code |-> 400]
            /\ UNCHANGED <<batch_analysis_status, dicts, bg, cancelled,
                           inflight_at_cancel, store_vars, population_vars>>
       ELSE /\ dicts' = [dicts EXCEPT ![obj].status = FAILED,
                                      ![obj].error_message = CancelMessage]
            /\ response' = [op |-> "cancel", code |-> 200]
            /\ cancelled' = cancelled \cup {obj}
            /\ inflight_at_cancel' = inflight_at_cancel \cup InFlight(obj)
            /\ UNCHANGED <<batch_analysis_status, bg, store_vars, population_vars>>

\* ------------------------------------------------------------------ Results

\* Results that refuses a batch that has not started as well.
BatchResultsResponseNotStarted(batch_id) ==
    LET obj == batch_analysis_status[batch_id]
    IN IF obj = 0 THEN [op |-> "results", code |-> 404]
       ELSE IF dicts[obj].status \in {PENDING, PROCESSING}
       THEN [op |-> "results", code |-> 202]
       ELSE [op |-> "results", code |-> 200,
             status |-> dicts[obj].status,
             total_images |-> dicts[obj].total_images,
             completed_images |-> dicts[obj].completed_images,
             failed_images |-> dicts[obj].failed_images,
             results |-> dicts[obj].results]

\* What get_batch_results answers in the current state.
BatchResultsResponse(batch_id) ==
    LET obj == batch_analysis_status[batch_id]
    IN IF obj = 0 THEN [op |-> "results", code |-> 404]
       ELSE IF dicts[obj].status = PROCESSING
       THEN [op |-> "results", code |-> 202]
       ELSE [op |-> "results", code |-> 200,
             status |-> dicts[obj].status,
             total_images |-> dicts[obj].total_images,
             completed_images |-> dicts[obj].completed_images,
             failed_images |-> dicts[obj].failed_images,
             results |-> dicts[obj].results]

get_batch_results(batch_id) ==
    /\ response' = BatchResultsResponse(batch_id)
    /\ UNCHANGED <<batch_analysis_status, dicts, bg, cancelled,
                      inflight_at_cancel, store_vars, population_vars>>

\* ------------------------------------------------------ Status and Progress

\* round(n / d): the nearest integer (no tie occurs for the values used).
Round(n, d) == (2 * n + d) \div (2 * d)

\* progress_percent, in tenths of a percent:
\* round(completed_images / total_images * 100, 1), 0 when total_images is 0.
ProgressPercent(batch_info) ==
    IF batch_info.total_images > 0
    THEN Round(batch_info.completed_images * 1000, batch_info.total_images)
    ELSE 0

\* progress_percent cut to one decimal instead of rounded.
ProgressPercentTruncated(batch_info) ==
    IF batch_info.total_images > 0
    THEN (batch_info.completed_images * 1000) \div batch_info.total_images
    ELSE 0

\* The progress_percent the handlers put in their answer.
progress_percent(batch_info) == ProgressPercent(batch_info)

\* batch_analysis_status[batch_id].copy() with progress_percent added.
StatusInfo(batch_info) ==
    [f \in DOMAIN batch_info \cup {"progress_percent"} |->
        IF f = "progress_percent" THEN progress_percent(batch_info)
        ELSE batch_info[f]]

get_batch_status(batch_id) ==
    LET obj == batch_analysis_status[batch_id]
    IN /\ response' = IF obj = 0 THEN [op |-> "status", code |-> 404]
                      ELSE [op |-> "status", code |-> 200,
                            status_info |-> StatusInfo(dicts[obj])]
       /\ UNCHANGED <<batch_analysis_status, dicts, bg, cancelled,
                      inflight_at_cancel, store_vars, population_vars>>

\* What get_batch_analysis_progress answers. The rate, the average time and
\* the estimate are kept as given (TRUE) or None (FALSE): the rate is given
\* once an image has completed (time has then passed since started_at), the
\* average once a result is published, the estimate while the status is
\* PROCESSING and a rate is given.
AnalysisProgress(batch_id, batch_info) ==
    [op |-> "progress", code |-> 200,
     batch_id |-> batch_id,
     status |-> batch_info.status,
     total_images |-> batch_info.total_images,
     completed_images |-> batch_info.completed_images,
     failed_images |-> batch_info.failed_images,
     current_image |-> batch_info.current_image,
     progress_percent |-> progress_percent(batch_info),
     estimated_completion_time |-> (/\ batch_info.completed_images > 0
                                    /\ batch_info.status = PROCESSING),
     processing_rate |-> batch_info.completed_images > 0,
     average_processing_time |-> Len(batch_info.results) > 0]

get_batch_analysis_progress(batch_id) ==
    LET obj == batch_analysis_status[batch_id]
    IN /\ response' = IF obj = 0 THEN [op |-> "progress", code |-> 404]
                      ELSE AnalysisProgress(batch_id, dicts[obj])
       /\ UNCHANGED <<batch_analysis_status, dicts, bg, cancelled,
                      inflight_at_cancel, store_vars, population_vars>>

\* ------------------------------------------------------ population statistics

IsCompleted(r) == r.status = COMPLETED

\* PopulationAnalysisService.analyze_population, its totals: it keeps the
\* completed results of the list it is given, raises when there is none, and
\* counts the list, the completed ones and the difference. (The measurement
\* statistics it computes over the completed results are not part of this
\* model.)
analyze_population(results) ==
    LET successful_results == SelectSeq(results, IsCompleted)
    IN IF Len(successful_results) = 0
       THEN [raised |-> TRUE]
       ELSE [raised |-> FALSE,
             total_fish |-> Len(results),
             successful_analyses |-> Len(successful_results),
             failed_analyses |-> Len(results) - Len(successful_results)]

\* Statistics refused only while the batch has not ended.
StatisticsRefusedUnlessEnded(status) == status \in {PENDING, PROCESSING}

\* The statuses get_population_statistics refuses.
StatisticsRefused(status) == status # COMPLETED

\* What get_population_statistics answers in the current state: the handler
\* filters the completed results and hands those to analyze_population.
PopulationStatisticsResponse(batch_id) ==
    LET obj == batch_analysis_status[batch_id]
    IN IF obj = 0 THEN [op |-> "population-stats", code |-> 404]
       ELSE IF StatisticsRefused(dicts[obj].status)
       THEN [op |-> "population-stats", code |-> 400,
             detail |-> "Batch analysis must be completed"]
       ELSE IF Len(dicts[obj].results) = 0
       THEN [op |-> "population-stats", code |-> 400,
             detail |-> "No analysis results found"]
       ELSE LET successful_results == SelectSeq(dicts[obj].results, IsCompleted)
                pop_stats == analyze_population(successful_results)
            IN IF Len(successful_results) = 0
               THEN [op |-> "population-stats", code |-> 400,
                     detail |-> "No successful analysis results found"]
               ELSE IF pop_stats.raised
               THEN [op |-> "population-stats", code |-> 500]
               ELSE [op |-> "population-stats", code |-> 200,
                     total_fish |-> pop_stats.total_fish,
                     successful_analyses |-> pop_stats.successful_analyses,
                     failed_analyses |-> pop_stats.failed_analyses]

get_population_statistics(batch_id) ==
    /\ response' = PopulationStatisticsResponse(batch_id)
    /\ UNCHANGED <<batch_analysis_status, dicts, bg, cancelled,
                   inflight_at_cancel, store_vars, population_vars>>

\* -------------------------------------------------------- paginated results

\* The query parameters a paginated read is called with. status_filter and
\* search are optional strings, an empty one counting as none given. The text
\* of search is a sequence of characters.
Pages == {1, 2}
PerPages == {0, 1}
StatusFilters == {None, <<COMPLETED>>}
SortBys == {"created_at", "processing_time", "confidence", "name"}
SortOrders == {"asc", "desc"}
Searches == {None, <<<<"1">>>>, <<<<"D", "-", "A">>>>}
DefaultPerPage == 12

\* The defaults of the parameters.
DefaultQuery ==
    [page |-> 1, per_page |-> DefaultPerPage, status_filter |-> None,
     sort_by |-> "created_at", sort_order |-> "desc", search |-> None]

\* The queries followed where the read is one operation among the others.
Queries == {DefaultQuery}

\* Every query over the parameter values above.
AllQueries ==
    [page : Pages, per_page : PerPages, status_filter : StatusFilters,
     sort_by : SortBys, sort_order : SortOrders, search : Searches]

Max(a, b) == IF a >= b THEN a ELSE b

\* str.lower(), on the characters of the model's texts.
lower(text) ==
    LET upper == <<"A", "B", "C", "D", "E", "F", "G", "H", "I">>
    IN [c \in DOMAIN text |->
          IF \E u \in DOMAIN upper : upper[u] = text[c]
          THEN Letter[CHOOSE u \in DOMAIN upper : upper[u] = text[c]]
          ELSE text[c]]

\* `needle in text` of two strings.
in(needle, text) ==
    \E at \in 0..(Len(text) - Len(needle)) :
        SubSeq(text, at + 1, at + Len(needle)) = needle

\* The sort keys: x.processing_metadata.processed_at,
\* x.processing_metadata.processing_time_seconds, and the mean confidence of
\* the detections (0 without detections), kept as numerator and denominator.
processed_at(x) == <<x.processed_at, 1>>
processing_time(x) == <<x.processing_time_seconds, 1>>
mean_confidence(x) ==
    IF x.detailed_detections # <<>>
    THEN <<Sum(x.detailed_detections), Len(x.detailed_detections)>>
    ELSE <<0, 1>>

\* list.sort(key=..., reverse=reverse), key[i] being the key of list[i]: a
\* stable sort, which keeps the order of equal keys also when reversed.
sort(list, key, reverse) ==
    LET n == Len(list)
        Less(j, i) == key[j][1] * key[i][2] < key[i][1] * key[j][2]
        Before(j, i) ==
            \/ (~reverse /\ Less(j, i))
            \/ (reverse /\ Less(i, j))
            \/ (~Less(j, i) /\ ~Less(i, j) /\ j < i)
        rank(i) == Cardinality({j \in 1..n : Before(j, i)})
    IN [pos \in 1..n |-> list[CHOOSE i \in 1..n : rank(i) = pos - 1]]

\* The if/elif chain over sort_by: a sort_by it does not know sorts nothing.
sorted(list, sort_by, sort_order) ==
    LET reverse == sort_order = "desc"
    IN IF sort_by = "created_at"
       THEN sort(list, [i \in DOMAIN list |-> processed_at(list[i])], reverse)
       ELSE IF sort_by = "processing_time"
       THEN sort(list, [i \in DOMAIN list |-> processing_time(list[i])],
                 reverse)
       ELSE IF sort_by = "confidence"
       THEN sort(list, [i \in DOMAIN list |-> mean_confidence(list[i])],
                 reverse)
       ELSE list

\* `if status_filter:` and `if search:`.
HasFilter(status_filter) == status_filter # None /\ status_filter[1] # ""
HasSearch(search) == search # None /\ Len(search[1]) > 0

\* filtered_results before the sort: the stored list itself without a filter
\* and without a search term, a new list otherwise.
Filtered(all_results, status_filter, search) ==
    LET Kept(r) == r.status = status_filter[1]
        Found(r) == \/ in(lower(search[1]), lower(str(r.image_path)))
                    \/ in(lower(search[1]), lower(r.analysis_id))
        by_status == IF HasFilter(status_filter)
                     THEN SelectSeq(all_results, Kept)
                     ELSE all_results
    IN IF HasSearch(search) THEN SelectSeq(by_status, Found) ELSE by_status

\* batch_info["results"] after a paginated read: without a filter and without
\* a search term, filtered_results is the stored list itself and the sort is
\* made in place; otherwise the sort is made on a new list.
SortedInPlace(all_results, query) ==
    IF ~HasFilter(query.status_filter) /\ ~HasSearch(query.search)
    THEN sorted(all_results, query.sort_by, query.sort_order)
    ELSE all_results

\* What get_batch_results_paginated answers for a record. The page count
\* divides by per_page: with per_page = 0 the division raises, after the
\* sort, and the handler answers 500.
PaginatedResults(batch_info, query) ==
    LET per_page == query.per_page
        filtered_results ==
            sorted(Filtered(batch_info.results, query.status_filter,
                            query.search),
                   query.sort_by, query.sort_order)
        total_items == Len(filtered_results)
        total_pages == Max(1, (total_items + per_page - 1) \div per_page)
        page == Max(1, Min(query.page, total_pages))
        start_idx == (page - 1) * per_page
        end_idx == Min(start_idx + per_page, total_items)
    IN [items |-> SubSeq(filtered_results, start_idx + 1, end_idx),
        total_items |-> total_items,
        items_per_page |-> per_page,
        current_page |-> page,
        total_pages |-> total_pages,
        has_next |-> page < total_pages,
        has_previous |-> page > 1]

get_batch_results_paginated(batch_id, query) ==
    LET obj == batch_analysis_status[batch_id]
    IN IF obj = 0
       THEN /\ response' = [op |-> "paginated", code |-> 404]
            /\ UNCHANGED <<batch_analysis_status, dicts, bg, cancelled,
                           inflight_at_cancel, store_vars, population_vars>>
       ELSE /\ response' =
                  IF query.per_page = 0
                  THEN [op |-> "paginated", code |-> 500]
                  ELSE [op |-> "paginated", code |-> 200,
                        batch_id |-> batch_id,
                        paginated_results |->
                            PaginatedResults(dicts[obj], query)]
            /\ dicts' = [dicts EXCEPT ![obj].results =
                            SortedInPlace(dicts[obj].results, query)]
            /\ UNCHANGED <<batch_analysis_status, bg, cancelled,
                           inflight_at_cancel, store_vars, population_vars>>

\* ---------------------------------------------------- comprehensive results

\* batch_info = batch_analysis_status[batch_id] without a membership test:
\* an absent id raises KeyError, which the handler's `except Exception`
\* answers with status 500. 0 stands for "no error".
ComprehensiveLookup(batch_id) ==
    IF batch_analysis_status[batch_id] = 0 THEN 500 ELSE 0

\* The empty statistics built when get_population_statistics fails.
EmptyPopulationStatistics(batch_info) ==
    [total_fish |-> 0, successful_analyses |-> 0,
     failed_analyses |-> batch_info.failed_images]

\* The answer of get_comprehensive_batch_results up to the paginated read:
\* code 0 stands for "the handler goes on to the paginated read".
ComprehensiveOutcome(batch_id) ==
    LET obj == batch_analysis_status[batch_id]
        pop_stats == PopulationStatisticsResponse(batch_id)
    IN IF ComprehensiveLookup(batch_id) # 0
       THEN [code |-> ComprehensiveLookup(batch_id)]
       ELSE IF dicts[obj].status = PROCESSING THEN [code |-> 202]
       ELSE IF dicts[obj].status # COMPLETED THEN [code |-> 400]
       ELSE IF pop_stats.code = 200
       THEN [code |-> 0,
             population_statistics |->
                 [total_fish |-> pop_stats.total_fish,
                  successful_analyses |-> pop_stats.successful_analyses,
                  failed_analyses |-> pop_stats.failed_analyses]]
       ELSE IF \/ (pop_stats.code = 400
                     /\ pop_stats.detail = "No analysis results found")
               \/ dicts[obj].completed_images = 0
       THEN [code |-> 0,
             population_statistics |-> EmptyPopulationStatistics(dicts[obj])]
       ELSE [code |-> pop_stats.code]

get_comprehensive_batch_results(batch_id) ==
    LET obj == batch_analysis_status[batch_id]
        outcome == ComprehensiveOutcome(batch_id)
    IN IF outcome.code # 0
       THEN /\ response' = [op |-> "comprehensive", code |-> outcome.code]
            /\ UNCHANGED <<batch_analysis_status, dicts, bg, cancelled,
                           inflight_at_cancel, store_vars, population_vars>>
       ELSE /\ dicts' = [dicts EXCEPT ![obj].results =
                            SortedInPlace(dicts[obj].results, DefaultQuery)]
            /\ response' =
                  [op |-> "comprehensive", code |-> 200,
                   batch_id |-> batch_id,
                   status |-> dicts[obj].status,
                   total_images |-> dicts[obj].total_images,
                   completed_images |-> dicts[obj].completed_images,
                   failed_images |-> dicts[obj].failed_images,
                   results |-> dicts'[obj].results,
                   population_statistics |-> outcome.population_statistics,
                   paginated_results |->
                       PaginatedResults(dicts[obj], DefaultQuery)]
            /\ UNCHANGED <<batch_analysis_status, bg, cancelled,
                           inflight_at_cancel, store_vars, population_vars>>

\* ----------------------------------------------------------------- download

ValidFormats == {"csv", "json", "pdf", "zip"}
Formats == {"csv", "xml"}

download_batch_results(batch_id, format) ==
    LET obj == batch_analysis_status[batch_id]
    IN /\ response' =
            IF format \notin ValidFormats
            THEN [op |-> "download", code |-> 400]
            ELSE IF obj = 0 THEN [op |-> "download", code |-> 404]
            ELSE IF dicts[obj].status # COMPLETED
            THEN [op |-> "download", code |-> 400]
            ELSE [op |-> "download", code |-> 501,
                  batch_id |-> batch_id, format |-> format]
       /\ UNCHANGED <<batch_analysis_status, dicts, bg, cancelled,
                      inflight_at_cancel, store_vars, population_vars>>

\* ------------------------------------------------------------ specification

Next ==
    \/ \E b \in HeldBatchIds \cup {NoId}, nv \in 0..MaxTasks, ni \in {0, MaxInvalid} :
          start_batch_analysis(b, nv, ni)
    \/ \E k \in DOMAIN bg : ProcessBatchStart(k)
    \/ \E k \in DOMAIN bg : LaunchTasks(k)
    \/ \E k \in DOMAIN bg : \E i \in DOMAIN bg[k].tasks : ProcessOneResume(k, i)
    \/ \E k \in DOMAIN bg : \E i \in DOMAIN bg[k].tasks :
          \E outcome \in Outcomes : ProcessOneFinish(k, i, outcome)
    \/ \E k \in DOMAIN bg : ProcessBatchFinalize(k)
    \/ \E k \in DOMAIN bg : ProcessBatchFault(k)
    \/ \E b \in AllBatchIds : cancel_batch_analysis(b)
    \/ \E b \in AllBatchIds : get_batch_results(b)

Spec == Init /\ [][Next]_vars

\* A step of the event loop: the background coroutine or one of its tasks
\* moves on.
LoopStep ==
    \/ \E k \in DOMAIN bg : ProcessBatchStart(k)
    \/ \E k \in DOMAIN bg : LaunchTasks(k)
    \/ \E k \in DOMAIN bg : \E i \in DOMAIN bg[k].tasks : ProcessOneResume(k, i)
    \/ \E k \in DOMAIN bg : \E i \in DOMAIN bg[k].tasks :
          \E outcome \in Outcomes : ProcessOneFinish(k, i, outcome)
    \/ \E k \in DOMAIN bg : ProcessBatchFinalize(k)
    \/ \E k \in DOMAIN bg : ProcessBatchFault(k)

\* Spec under fair scheduling: the event loop runs a coroutine that is ready,
\* and every Analyzer call comes back (with a result or an exception).
LiveSpec == Init /\ [][Next]_vars /\ WF_vars(LoopStep)

\* upload_batch_images for one file: the blob is put under a key made of a
\* fresh batch id and the filename, with the configured ttl, and the key is
\* returned as the reference of the image. The uploads come before the first
\* Create.
upload_batch_images(batch_id) ==
    LET mem_key == make_mem_image_key(batch_id, <<"a">>)
        entry == [data |-> "b2",
                  content_type |-> <<"image/jpeg">>,
                  expires_at |-> NewExpiry(now, <<MEMORY_TTL_SECONDS>>)]
        gc == _maybe_gc(StoreEntry(_data, mem_key, entry), _last_gc, now)
    IN /\ Len(dicts) = 0
       /\ mem_key \notin DOMAIN _data
       /\ _data' = gc.data
       /\ _last_gc' = gc.last_gc
       /\ put_at' = SetItem(put_at, mem_key,
                            [time |-> now,
                             ttl_seconds |-> <<MEMORY_TTL_SECONDS>>])
       /\ returned' = [op |-> "put", key |-> mem_key]
       /\ response' = [op |-> "upload", code |-> 200, file_path |-> mem_key]
       /\ UNCHANGED <<batch_analysis_status, dicts, bg, cancelled,
                      inflight_at_cancel, now, thread_vars, population_vars>>

\* The requests with references into the store: one of them alone, and both
\* after two files on disk (more images than the semaphore has permits).
MemRequests == {<<-1>>, <<1, 2, -1, -2>>}

\* Create with such a request.
start_batch_analysis_mem(request_batch_id, images) ==
    /\ TasksCreated + Len(images) <= (IF Len(dicts) = 0 THEN MaxTasks
                                      ELSE MaxSharedTasks)
    /\ StartBatch(request_batch_id, images)

\* The engine on images held in the transient store.
MemNext ==
    \/ \E batch_id \in KeyBatchIds : upload_batch_images(batch_id)
    \/ \E b \in HeldBatchIds \cup {NoId}, images \in MemRequests :
          start_batch_analysis_mem(b, images)
    \/ LoopStep
    \/ \E b \in AllBatchIds : cancel_batch_analysis(b)

MemSpec == Init /\ [][MemNext]_vars

\* The engine without a read: Create, the background coroutine and its tasks,
\* and Cancel.
EngineNext ==
    \/ \E b \in HeldBatchIds \cup {NoId}, nv \in 0..MaxTasks, ni \in {0, MaxInvalid} :
          start_batch_analysis(b, nv, ni)
    \/ \E k \in DOMAIN bg : ProcessBatchStart(k)
    \/ \E k \in DOMAIN bg : LaunchTasks(k)
    \/ \E k \in DOMAIN bg : \E i \in DOMAIN bg[k].tasks : ProcessOneResume(k, i)
    \/ \E k \in DOMAIN bg : \E i \in DOMAIN bg[k].tasks :
          \E outcome \in Outcomes : ProcessOneFinish(k, i, outcome)
    \/ \E k \in DOMAIN bg : ProcessBatchFinalize(k)
    \/ \E k \in DOMAIN bg : ProcessBatchFault(k)
    \/ \E b \in AllBatchIds : cancel_batch_analysis(b)

\* The engine read through Status and Progress instead of Results. A read
\* changes nothing but the answer, so the batch records and the tasks go
\* through the same states as under Spec.
StatusNext ==
    \/ EngineNext
    \/ \E b \in AllBatchIds : get_batch_status(b)
    \/ \E b \in AllBatchIds : get_batch_analysis_progress(b)

StatusSpec == Init /\ [][StatusNext]_vars

\* The engine read through the population statistics.
StatisticsNext ==
    \/ EngineNext
    \/ \E b \in AllBatchIds : get_population_statistics(b)

StatisticsSpec == Init /\ [][StatisticsNext]_vars

\* The engine with every operation that takes a batch id.
LookupNext ==
    \/ EngineNext
    \/ \E b \in AllBatchIds : get_batch_status(b)
    \/ \E b \in AllBatchIds : get_batch_analysis_progress(b)
    \/ \E b \in AllBatchIds : get_batch_results(b)
    \/ \E b \in AllBatchIds : get_population_statistics(b)
    \/ \E b \in AllBatchIds, query \in Queries :
          get_batch_results_paginated(b, query)
    \/ \E b \in AllBatchIds : get_comprehensive_batch_results(b)
    \/ \E b \in AllBatchIds, format \in Formats :
          download_batch_results(b, format)

LookupSpec == Init /\ [][LookupNext]_vars

\* The searched terms that an id contains.
Found(analysis_id) ==
    {search \in Searches \ {None} : in(lower(search[1]), analysis_id)}

\* Two ids that contain the same searched terms are told apart by no query:
\* of the ids not drawn yet, the first of each kind stands for the others.
FirstOfItsKind(results, fresh) ==
    LET not_drawn == NotDrawn(results)
    IN /\ fresh <= Len(not_drawn)
       /\ \A other \in 1..(fresh - 1) :
             Found(not_drawn[other]) # Found(not_drawn[fresh])

\* One batch read through the paginated results, with every query and with
\* results that differ in id, in duration and in confidence. The batch has at
\* most MaxPaged files and no more than the semaphore has permits, so that no
\* task waits.
PaginatedNext ==
    \/ \E nv \in 1..Min(MaxPaged, CONCURRENCY_LIMIT) :
          start_batch_analysis(NoId, nv, 0)
    \/ \E k \in DOMAIN bg : ProcessBatchStart(k)
    \/ \E k \in DOMAIN bg : LaunchTasks(k)
    \/ \E k \in DOMAIN bg : \E i \in DOMAIN bg[k].tasks :
          /\ bg[k].tasks[i] = "running"
          /\ \E outcome \in MeasuredOutcomes :
                /\ FirstOfItsKind(bg[k].results, outcome.fresh)
                /\ ProcessOneFinish(k, i, outcome)
    \/ \E k \in DOMAIN bg : ProcessBatchFinalize(k)
    \/ \E k \in DOMAIN bg : ProcessBatchFault(k)
    \/ \E b \in HeldBatchIds, query \in AllQueries :
          get_batch_results_paginated(b, query)

PaginatedSpec == Init /\ [][PaginatedNext]_vars

\* ------------------------------------------------- population statistics
\* services/population_analysis.py. A DataFrame is the sequence of its rows,
\* and a row is a function from the columns it has a value in to that value:
\* a cell that pandas holds as NaN is a column absent from the row's DOMAIN.
\* Lengths are whole numbers of a fixed unit, the tenth of an inch; a statistic
\* that is not a whole number is kept as a fixed-point number, the scale said
\* where it is made, except the standard deviation, which is the float64 that
\* pandas computes.

MaxRows == 3

\* df[col].dropna(): the values of a column, in the order of the rows.
RECURSIVE dropna(_, _)
dropna(df, col) ==
    IF df = <<>>
    THEN <<>>
    ELSE (IF col \in DOMAIN Head(df) THEN <<Head(df)[col]>> ELSE <<>>)
             \o dropna(Tail(df), col)

\* The value at position k (from 0) of the sorted values.
OrderStatistic(values, k) ==
    LET V == {values[i] : i \in DOMAIN values}
    IN CHOOSE v \in V :
          /\ Cardinality({i \in DOMAIN values : values[i] < v}) <= k
          /\ Cardinality({i \in DOMAIN values : values[i] <= v}) > k

\* Series.quantile(q / 100), in hundredths of the unit: pandas interpolates
\* linearly between the two sorted values around position (n - 1) * q / 100.
quantile(values, q) ==
    LET idx == (Len(values) - 1) * q
        lo == idx \div 100
        rem == idx % 100
        a == OrderStatistic(values, lo)
        b == IF rem = 0 THEN a ELSE OrderStatistic(values, lo + 1)
    IN 100 * a + rem * (b - a)

SeqMin(values) ==
    CHOOSE v \in {values[i] : i \in DOMAIN values} :
        \A i \in DOMAIN values : v <= values[i]

SeqMax(values) ==
    CHOOSE v \in {values[i] : i \in DOMAIN values} :
        \A i \in DOMAIN values : v >= values[i]

SizeColumns == <<"total_length", "standard_length", "fork_length">>

EmptyBucket == [count |-> 0, percentage |-> 0, range |-> <<0, 0>>]

EmptyClassification ==
    [small |-> EmptyBucket, medium |-> EmptyBucket, large |-> EmptyBucket]

\* One bucket of the classification; the percentage, rounded to one decimal,
\* is in tenths of a percent.
Bucket(fish, total_count) ==
    [count |-> Len(fish),
     percentage |-> Round(Len(fish) * 1000, total_count),
     range |-> IF Len(fish) > 0
               THEN <<SeqMin(fish), SeqMax(fish)>>
               ELSE <<0, 0>>]

\* The three masks over the sizes, the terciles being in hundredths.
IsSmall(x, q33) == 100 * x <= q33

\* A medium mask that leaves out the sizes equal to the upper tercile.
IsMediumBelow(x, q33, q67) == 100 * x > q33 /\ 100 * x < q67

IsMedium(x, q33, q67) == 100 * x > q33 /\ 100 * x <= q67

IsLarge(x, q67) == 100 * x > q67

_classify_sizes(df) ==
    LET found == {i \in DOMAIN SizeColumns :
                     Len(dropna(df, SizeColumns[i])) > 0}
    IN IF found = {}
       THEN EmptyClassification
       ELSE LET size_column ==
                    SizeColumns[CHOOSE i \in found : \A j \in found : i <= j]
                sizes == dropna(df, size_column)
                q33 == quantile(sizes, 33)
                q67 == quantile(sizes, 67)
                small(x) == IsSmall(x, q33)
                medium(x) == IsMedium(x, q33, q67)
                large(x) == IsLarge(x, q67)
                total_count == Len(sizes)
            IN IF Len(sizes) < 3
               THEN EmptyClassification
               ELSE [small |-> Bucket(SelectSeq(sizes, small), total_count),
                     medium |-> Bucket(SelectSeq(sizes, medium), total_count),
                     large |-> Bucket(SelectSeq(sizes, large), total_count)]

\* The rows over some columns: each column is absent or has one of its values.
Rows(values) ==
    UNION {{r \in [S -> UNION {values[c] : c \in S}] :
               \A c \in S : r[c] \in values[c]} : S \in SUBSET DOMAIN values}

Frames(rows, n) == UNION {[1..k -> rows] : k \in 0..n}

\* Six fish of which one is far longer than the others.
OutlierFrame ==
    [i \in 1..6 |-> [total_length |-> <<10, 12, 14, 16, 18, 100>>[i]]]

\* The frames given to _classify_sizes: up to MaxRows rows in which each of the
\* three length columns is absent or has one of a few values, and the six fish.
SizeFrames ==
    Frames(Rows([total_length |-> {1, 2, 3},
                 standard_length |-> {2, 5},
                 fork_length |-> {4}]), MaxRows)
        \cup {OutlierFrame}

\* A call of the engine: the engine keeps no state, the batches and the store
\* are as after construction.
CallInit(arguments) ==
    /\ batch_analysis_status = [b \in AllBatchIds |-> 0]
    /\ dicts = <<>>
    /\ bg = <<>>
    /\ response = NoResponse
    /\ cancelled = {}
    /\ inflight_at_cancel = {}
    /\ StoreInit
    /\ population_arg \in arguments
    /\ population_ret = None

ClassifySizes ==
    /\ population_ret = None
    /\ population_ret' = <<_classify_sizes(population_arg)>>
    /\ UNCHANGED <<population_arg, engine_vars, store_vars>>

ClassifySpec == CallInit(SizeFrames) /\ [][ClassifySizes]_vars

\* The keys of a row, in the order in which _extract_measurement_data writes
\* them: the confidence, the measurements in the order the Analyzer emits
\* them, the detection counts.
ColumnOrder ==
    <<"confidence", "head_to_pectoral", "total_length", "standard_length",
      "fork_length", "eye_count">>

RowColumns(row) ==
    LET Has(c) == c \in DOMAIN row
    IN SelectSeq(ColumnOrder, Has)

\* df.columns: the keys of the rows, in the order of their first appearance.
\* (analysis_id and image_path are columns of strings, which every selection
\* of numeric columns leaves out: the frames of the model do not have them.)
RECURSIVE columns(_)
columns(df) ==
    IF df = <<>>
    THEN <<>>
    ELSE LET before == columns(SubSeq(df, 1, Len(df) - 1))
             New(c) == \A i \in DOMAIN before : before[i] # c
         IN before \o SelectSeq(RowColumns(df[Len(df)]), New)

\* column.replace('_', ' ').title()
Title ==
    [confidence |-> "Confidence",
     head_to_pectoral |-> "Head To Pectoral",
     total_length |-> "Total Length",
     standard_length |-> "Standard Length",
     fork_length |-> "Fork Length",
     eye_count |-> "Eye Count"]

RECURSIVE Concat(_)
Concat(seqs) ==
    IF seqs = <<>> THEN <<>> ELSE Head(seqs) \o Concat(Tail(seqs))

\* n times the deviations from the mean (whole numbers).
Deviations(values) ==
    [i \in DOMAIN values |-> Len(values) * values[i] - Sum(values)]

\* The sum of the products of the deviations of two series, times n * n.
CoMoment(x, y) ==
    LET dx == Deviations(x)
        dy == Deviations(y)
    IN Sum([i \in DOMAIN x |-> dx[i] * dy[i]])

\* The largest r with r * r <= x, searched between lo (whose square is at most
\* x) and hi (whose square is above x).
RECURSIVE SqrtBetween(_, _, _)
SqrtBetween(x, lo, hi) ==
    IF hi - lo <= 1
    THEN lo
    ELSE LET mid == (lo + hi) \div 2
         IN IF mid * mid <= x
            THEN SqrtBetween(x, mid, hi)
            ELSE SqrtBetween(x, lo, mid)

Sqrt(x) == SqrtBetween(x, 0, Min(x, 46340) + 1)

\* The Pearson coefficient of DataFrame.corr(): NaN (None) when one of the
\* series does not vary, else the coefficient as the three sums it is made of.
corr(x, y) ==
    LET sxy == CoMoment(x, y)
        sxx == CoMoment(x, x)
        syy == CoMoment(y, y)
    IN IF sxx = 0 \/ syy = 0
       THEN None
       ELSE <<[sxy |-> sxy, sxx |-> sxx, syy |-> syy]>>

\* abs(corr_coef) > t / 10 and abs(corr_coef) >= t / 10, on the sums.
AbsAbove(c, t) == 100 * c.sxy * c.sxy > t * t * c.sxx * c.syy

AbsAtLeast(c, t) == 100 * c.sxy * c.sxy >= t * t * c.sxx * c.syy

\* float(corr_coef), in hundredths, cut towards zero.
Coefficient(c) ==
    LET magnitude == Sqrt((10000 * c.sxy * c.sxy) \div (c.sxx * c.syy))
    IN IF c.sxy < 0 THEN 0 - magnitude ELSE magnitude

relationship_strength(c) ==
    IF AbsAtLeast(c, 8) THEN "very_strong"
    ELSE IF AbsAtLeast(c, 6) THEN "strong"
    ELSE IF AbsAtLeast(c, 4) THEN "moderate"
    ELSE IF AbsAtLeast(c, 2) THEN "weak"
    ELSE "very_weak"

\* The rows pandas' dropna() keeps: those with a value in every column.
CompleteRows(df, cols) ==
    LET Complete(row) == \A i \in DOMAIN cols : cols[i] \in DOMAIN row
    IN SelectSeq(df, Complete)

\* The entries of _calculate_correlations (without the p-value, which is
\* scipy's and is not modelled).
_calculate_correlations(df) ==
    LET NotConfidence(c) == c # "confidence"
        measurement_columns == SelectSeq(columns(df), NotConfidence)
        corr_data == CompleteRows(df, measurement_columns)
        n == Len(measurement_columns)
        Ordered(p) == p[1] < p[2]
        pairs == SelectSeq([k \in 1..(n * n) |->
                               <<((k - 1) \div n) + 1, ((k - 1) % n) + 1>>],
                           Ordered)
        Entry(p) ==
            LET col1 == measurement_columns[p[1]]
                col2 == measurement_columns[p[2]]
                corr_coef == corr(dropna(corr_data, col1),
                                  dropna(corr_data, col2))
            IN IF corr_coef = None
               THEN <<>>
               ELSE IF AbsAbove(corr_coef[1], 3)
                    THEN <<[measurement1 |-> Title[col1],
                            measurement2 |-> Title[col2],
                            correlation_coefficient |->
                                Coefficient(corr_coef[1]),
                            relationship_strength |->
                                relationship_strength(corr_coef[1])]>>
                    ELSE <<>>
    IN IF n < 2
       THEN <<>>
       ELSE IF Len(corr_data) < 3
            THEN <<>>
            ELSE Concat([k \in DOMAIN pairs |-> Entry(pairs[k])])

CorrelationFrames ==
    Frames(Rows([total_length |-> {1, 3},
                 head_to_pectoral |-> {1, 2},
                 eye_count |-> {2}]), MaxRows)

CalculateCorrelations ==
    /\ population_ret = None
    /\ population_ret' = <<_calculate_correlations(population_arg)>>
    /\ UNCHANGED <<population_arg, engine_vars, store_vars>>

CorrelationSpec == CallInit(CorrelationFrames) /\ [][CalculateCorrelations]_vars

\* ------------------------------------------------------ float64 arithmetic
\* The standard deviation is emitted as pandas computes it, in binary floating
\* point, so that its roundings are part of the model. A natural number of any
\* size is the sequence of its digits in base 2^15, the lowest first and the
\* highest not 0 (the empty sequence is 0).

RECURSIVE Limbs(_)
Limbs(n) == IF n = 0 THEN <<>> ELSE <<n % 32768>> \o Limbs(n \div 32768)

RECURSIVE Trim(_)
Trim(a) ==
    IF a = <<>> THEN a
    ELSE IF a[Len(a)] # 0 THEN a
    ELSE Trim(SubSeq(a, 1, Len(a) - 1))

Limb(a, i) == IF i <= Len(a) THEN a[i] ELSE 0

RECURSIVE AddCarry(_, _, _, _)
AddCarry(a, b, i, carry) ==
    IF i > Len(a) /\ i > Len(b)
    THEN Limbs(carry)
    ELSE LET t == Limb(a, i) + Limb(b, i) + carry
         IN <<t % 32768>> \o AddCarry(a, b, i + 1, t \div 32768)

NatAdd(a, b) == Trim(AddCarry(a, b, 1, 0))

RECURSIVE SubBorrow(_, _, _, _)
SubBorrow(a, b, i, borrow) ==
    IF i > Len(a)
    THEN <<>>
    ELSE LET t == a[i] - Limb(b, i) - borrow
         IN IF t < 0
            THEN <<t + 32768>> \o SubBorrow(a, b, i + 1, 1)
            ELSE <<t>> \o SubBorrow(a, b, i + 1, 0)

\* a - b, for a >= b.
NatSub(a, b) == Trim(SubBorrow(a, b, 1, 0))

RECURSIVE LessFrom(_, _, _)
LessFrom(a, b, i) ==
    IF i = 0 THEN FALSE
    ELSE IF a[i] # b[i] THEN a[i] < b[i]
    ELSE LessFrom(a, b, i - 1)

NatLess(a, b) ==
    IF Len(a) # Len(b) THEN Len(a) < Len(b) ELSE LessFrom(a, b, Len(a))

RECURSIVE MulCarry(_, _, _, _)
MulCarry(a, k, i, carry) ==
    IF i > Len(a)
    THEN Limbs(carry)
    ELSE LET t == a[i] * k + carry
         IN <<t % 32768>> \o MulCarry(a, k, i + 1, t \div 32768)

\* a * k, for k < 2^15.
NatMulSmall(a, k) == Trim(MulCarry(a, k, 1, 0))

RECURSIVE NatMul(_, _)
NatMul(a, b) ==
    IF a = <<>> \/ b = <<>>
    THEN <<>>
    ELSE LET rest == NatMul(Tail(a), b)
         IN NatAdd(NatMulSmall(b, Head(a)),
                   IF rest = <<>> THEN <<>> ELSE <<0>> \o rest)

\* The quotient and the remainder of a by k, for 0 < k < 2^15, from the
\* highest digit down to digit i.
RECURSIVE DivFrom(_, _, _, _)
DivFrom(a, k, i, rem) ==
    IF i = 0
    THEN [quotient |-> <<>>, remainder |-> rem]
    ELSE LET t == rem * 32768 + a[i]
             low == DivFrom(a, k, i - 1, t % k)
         IN [quotient |-> Append(low.quotient, t \div k),
             remainder |-> low.remainder]

NatDivSmall(a, k) ==
    LET d == DivFrom(a, k, Len(a), 0)
    IN [quotient |-> Trim(d.quotient), remainder |-> d.remainder]

\* a * 2^bits and the whole part of a / 2^bits.
Shl(a, bits) ==
    IF a = <<>>
    THEN <<>>
    ELSE [i \in 1..(bits \div 15) |-> 0] \o NatMulSmall(a, 2 ^ (bits % 15))

Shr(a, bits) ==
    NatDivSmall(SubSeq(a, (bits \div 15) + 1, Len(a)),
                2 ^ (bits % 15)).quotient

\* The number of binary digits of a.
BitLength(a) ==
    IF a = <<>>
    THEN 0
    ELSE 15 * (Len(a) - 1)
             + (CHOOSE n \in 1..15 : 2 ^ (n - 1) <= a[Len(a)] /\ a[Len(a)] < 2 ^ n)

\* The largest r with r * r <= a, one binary digit after the other from
\* digit i down.
RECURSIVE SqrtFrom(_, _, _)
SqrtFrom(a, r, i) ==
    IF i < 0
    THEN r
    ELSE LET more == NatAdd(r, Shl(<<1>>, i))
         IN IF NatLess(a, NatMul(more, more))
            THEN SqrtFrom(a, r, i - 1)
            ELSE SqrtFrom(a, more, i - 1)

NatSqrt(a) == SqrtFrom(a, <<>>, BitLength(a) \div 2)

\* A float64 that is finite and not negative: 0.0, or m * 2^e with m of 53
\* binary digits (the values of the model are far from the subnormal numbers
\* and from the overflow).
PositiveZero == [m |-> <<>>, e |-> 0]

\* The float64 nearest to the number that is n * 2^e, or just above it when
\* `above` holds (then n has more than 54 digits); a tie goes to the even m.
RoundToNearestEven(n, e, above) ==
    LET bits == BitLength(n)
        shift == bits - 53
        q == Shr(n, shift)
        rem == NatSub(n, Shl(q, shift))
        half == Shl(<<1>>, shift - 1)
        up == IF NatLess(half, rem) THEN TRUE
              ELSE IF NatLess(rem, half) THEN FALSE
              ELSE above \/ q[1] % 2 = 1
        r == IF up THEN NatAdd(q, <<1>>) ELSE q
    IN IF n = <<>> THEN PositiveZero
       ELSE IF bits <= 53 THEN [m |-> Shl(n, 53 - bits), e |-> e - (53 - bits)]
       ELSE IF BitLength(r) > 53 THEN [m |-> Shr(r, 1), e |-> e + shift + 1]
       ELSE [m |-> r, e |-> e + shift]

\* float(k) of a whole number.
Float64(k) == RoundToNearestEven(Limbs(k), 0, FALSE)

\* x + y and abs(x - y).
Float64Add(x, y) ==
    LET e == Min(x.e, y.e)
    IN IF x.m = <<>> THEN y
       ELSE IF y.m = <<>> THEN x
       ELSE RoundToNearestEven(NatAdd(Shl(x.m, x.e - e), Shl(y.m, y.e - e)),
                               e, FALSE)

Float64AbsDiff(x, y) ==
    LET e == Min(x.e, y.e)
        a == Shl(x.m, x.e - e)
        b == Shl(y.m, y.e - e)
    IN IF x.m = <<>> THEN y
       ELSE IF y.m = <<>> THEN x
       ELSE RoundToNearestEven(IF NatLess(a, b) THEN NatSub(b, a)
                               ELSE NatSub(a, b), e, FALSE)

\* x * y.
Float64Mul(x, y) == RoundToNearestEven(NatMul(x.m, y.m), x.e + y.e, FALSE)

\* x / k, for a whole number 0 < k < 2^15.
Float64Div(x, k) ==
    LET d == NatDivSmall(Shl(x.m, 30), k)
    IN RoundToNearestEven(d.quotient, x.e - 30, d.remainder # 0)

\* np.sqrt(x).
Float64Sqrt(x) ==
    LET s == IF (x.e - 60) % 2 = 0 THEN 60 ELSE 61
        n == Shl(x.m, s)
        r == NatSqrt(n)
    IN RoundToNearestEven(r, (x.e - s) \div 2, NatMul(r, r) # n)

\* ndarray.sum() of up to 8 values: one addition after the other, from 0.0.
RECURSIVE Float64Sum(_)
Float64Sum(values) ==
    IF values = <<>>
    THEN PositiveZero
    ELSE Float64Add(Float64Sum(SubSeq(values, 1, Len(values) - 1)),
                    values[Len(values)])

\* The float64 of a cell. A length of the model is a whole number of tenths of
\* an inch and its float64 the nearest to that decimal number (0.1 and 0.2
\* are not binary fractions, 0.5 is one); a detection count and the mean
\* confidence of the model are whole numbers.
LengthColumns ==
    {"head_to_pectoral", "total_length", "standard_length", "fork_length"}

float(column, value) ==
    IF column \in LengthColumns
    THEN Float64Div(Float64(value), 10)
    ELSE Float64(value)

\* Series.std(), a float64: pandas' nanvar with ddof = 1 divides the sum of
\* the values by their number, sums the squares of the differences between
\* that mean and each value, divides by the number less one, and nanstd takes
\* the square root. Each operation rounds. NaN (None) below 2 values.
std(values) ==
    LET count == Len(values)
        avg == Float64Div(Float64Sum(values), count)
        sqr == [i \in DOMAIN values |->
                   LET d == Float64AbsDiff(avg, values[i])
                   IN Float64Mul(d, d)]
    IN IF count < 2
       THEN None
       ELSE <<Float64Sqrt(Float64Div(Float64Sum(sqr), count - 1))>>

\* The other statistics of a series of n >= 2 values, as whole numbers of
\* hundredths of the unit (hundredths for the two that have no unit), cut
\* towards zero; None is pandas' NaN.
mean(values) == <<(100 * Sum(values)) \div Len(values)>>

\* Series.skew(): NaN below 3 values, 0 for a series that does not vary, else
\* n * sqrt(n - 1) / (n - 2) * m3 / m2 ** 1.5 on the sums of the powers of
\* the deviations.
skew(values) ==
    LET n == Len(values)
        d == Deviations(values)
        m2 == Sum([i \in DOMAIN d |-> d[i] * d[i]])
        m3 == Sum([i \in DOMAIN d |-> d[i] * d[i] * d[i]])
        magnitude == Sqrt((10000 * n * n * (n - 1) * m3 * m3)
                              \div ((n - 2) * (n - 2) * m2 * m2 * m2))
    IN IF n < 3
       THEN None
       ELSE IF m2 = 0
            THEN <<0>>
            ELSE <<IF m3 < 0 THEN 0 - magnitude ELSE magnitude>>

\* Series.kurtosis(): NaN below 4 values, 0 when the denominator is 0.
kurtosis(values) ==
    LET n == Len(values)
        d == Deviations(values)
        m2 == Sum([i \in DOMAIN d |-> d[i] * d[i]])
        m4 == Sum([i \in DOMAIN d |-> d[i] * d[i] * d[i] * d[i]])
        denominator == (n - 2) * (n - 3) * m2 * m2
        numerator == n * (n + 1) * (n - 1) * m4
                         - 3 * (n - 1) * (n - 1) * m2 * m2
    IN IF n < 4
       THEN None
       ELSE IF denominator = 0
            THEN <<0>>
            ELSE <<(100 * numerator) \div denominator>>

\* float(x) if not pd.isna(x) else 0.0, on a fixed-point number and on a
\* float64.
NanToZero(x) == IF x = None THEN 0 ELSE x[1]

NanToPositiveZero(x) == IF x = None THEN PositiveZero ELSE x[1]

Distribution(column, data) ==
    [measurement_name |-> Title[column],
     mean |-> NanToZero(mean(data)),
     median |-> NanToZero(<<quantile(data, 50)>>),
     std_dev |-> NanToPositiveZero(
                     std([i \in DOMAIN data |-> float(column, data[i])])),
     min_value |-> NanToZero(<<100 * SeqMin(data)>>),
     max_value |-> NanToZero(<<100 * SeqMax(data)>>),
     q25 |-> NanToZero(<<quantile(data, 25)>>),
     q75 |-> NanToZero(<<quantile(data, 75)>>),
     skewness |-> NanToZero(skew(data)),
     kurtosis |-> NanToZero(kurtosis(data)),
     sample_size |-> Len(data)]

\* One entry per numeric column with at least 2 values, in the order of the
\* columns.
_calculate_distributions(df) ==
    LET measurement_columns == columns(df)
        Entry(column) ==
            LET data == dropna(df, column)
            IN IF Len(data) < 2
               THEN <<>>
               ELSE <<Distribution(column, data)>>
    IN Concat([k \in DOMAIN measurement_columns |->
                  Entry(measurement_columns[k])])

\* Rows in which head_to_pectoral and eye_count, where present, always have
\* the same value.
DistributionFrames ==
    Frames(Rows([total_length |-> {1, 2},
                 head_to_pectoral |-> {2},
                 eye_count |-> {1}]), MaxRows)

\* analyze_population computes the distributions and the correlations of the
\* same frame.
CalculateStatistics ==
    /\ population_ret = None
    /\ population_ret' =
           <<[distributions |-> _calculate_distributions(population_arg),
              correlations |-> _calculate_correlations(population_arg)]>>
    /\ UNCHANGED <<population_arg, engine_vars, store_vars>>

DistributionSpec == CallInit(DistributionFrames) /\ [][CalculateStatistics]_vars

\* measurement.name.lower().replace(' ', '_'), on the names of the model.
MeasurementNames == {"total_length", "Total Length", "head_to_pectoral"}

measurement_name(name) ==
    IF name = "Total Length" THEN "total_length" ELSE name

\* f"{detection_type}_count", on the one class of the model (eye).
count_column(detection_type) == "eye_count"

\* np.mean of the confidences of the detections, 0 without detections.
confidence(result) ==
    IF result.detailed_detections # <<>>
    THEN Sum(result.detailed_detections) \div Len(result.detailed_detections)
    ELSE 0

\* The row after the loop over the first k measurements: a later measurement
\* of the same column replaces the value of an earlier one.
RECURSIVE MeasurementCells(_, _)
MeasurementCells(measurements, k) ==
    IF k = 0
    THEN <<>>
    ELSE SetItem(MeasurementCells(measurements, k - 1),
                 measurement_name(measurements[k].name),
                 measurements[k].distance_inches)

\* The row of a result (without analysis_id and image_path, which are strings).
Row(result) ==
    LET counts == result.detections
        cells == MeasurementCells(result.measurements, Len(result.measurements))
    IN [c \in {"confidence"} \cup DOMAIN cells
              \cup {count_column(t) : t \in DOMAIN counts} |->
           IF c = "confidence"
           THEN confidence(result)
           ELSE IF c \in DOMAIN cells
                THEN cells[c]
                ELSE counts[CHOOSE t \in DOMAIN counts : count_column(t) = c]]

_extract_measurement_data(results) == [i \in DOMAIN results |-> Row(results[i])]

\* Successful results: what they measured, what was detected in them and how
\* confidently (a detection of the model has confidence 1.0).
SuccessfulResults ==
    [measurements :
         {<<>>,
          <<[name |-> "total_length", distance_inches |-> 1]>>,
          <<[name |-> "Total Length", distance_inches |-> 2]>>,
          <<[name |-> "head_to_pectoral", distance_inches |-> 1],
            [name |-> "total_length", distance_inches |-> 2]>>},
     detections : {<<>>, [eye |-> 2]},
     detailed_detections : {<<>>, <<1>>}]

ResultBatches == UNION {[1..k -> SuccessfulResults] : k \in 1..MaxRows}

\* analyze_population, from the results to the distributions.
ExtractAndDistribute ==
    /\ population_ret = None
    /\ population_ret' =
           <<_calculate_distributions(_extract_measurement_data(population_arg))>>
    /\ UNCHANGED <<population_arg, engine_vars, store_vars>>

ExtractSpec == CallInit(ResultBatches) /\ [][ExtractAndDistribute]_vars

\* The values of a result dictionary: a float is finite, NaN, inf or -inf (the
\* value of a float that is not finite is 0 in the model); a dict is a
\* function from its keys, a list a sequence.
Float(is, value) == [kind |-> "float", is |-> is, value |-> value]

Floats ==
    {Float("finite", 0), Float("finite", 25), Float("nan", 0),
     Float("inf", 0), Float("-inf", 0)}

Dict(items) == [kind |-> "dict", items |-> items]

List(items) == [kind |-> "list", items |-> items]

\* A sanitizer that lets the infinities through.
_sanitize_value_nan_only(value) ==
    IF value.kind = "float" /\ value.is = "nan"
    THEN Float("finite", 0)
    ELSE value

_sanitize_value(value) ==
    IF value.kind \in {"int", "float"}
    THEN IF value.kind = "float" /\ value.is \in {"nan", "inf", "-inf"}
         THEN Float("finite", 0)
         ELSE value
    ELSE IF value.kind = "none"
         THEN Float("finite", 0)
         ELSE value

RECURSIVE _sanitize_dict(_)
_sanitize_dict(data) ==
    Dict([key \in DOMAIN data.items |->
             LET value == data.items[key]
             IN IF value.kind = "dict"
                THEN _sanitize_dict(value)
                ELSE IF value.kind = "list"
                     THEN List([i \in DOMAIN value.items |->
                                   IF value.items[i].kind # "dict"
                                   THEN _sanitize_value(value.items[i])
                                   ELSE _sanitize_dict(value.items[i])])
                     ELSE _sanitize_value(value)])

\* The dictionary analyze_population builds, reduced to one field of each
\* shape: a number, a list of dictionaries, a dictionary of dictionaries that
\* hold a list of numbers, a dictionary of numbers.
PopulationResults ==
    {Dict([total_fish |-> [kind |-> "int", value |-> 2],
           processing_time_total |-> total,
           distributions |-> List(distributions),
           size_classification |->
               Dict([small |-> Dict([count |-> [kind |-> "int", value |-> 1],
                                     range |-> List(<<low, high>>)])]),
           quality_metrics |->
               Dict([average_detection_confidence |-> confidence_])]) :
        total \in Floats, low \in Floats, high \in Floats,
        confidence_ \in Floats,
        distributions \in
            {<<>>} \cup
            {<<Dict([measurement_name |-> [kind |-> "str", value |-> "Total Length"],
                     mean |-> m])>> : m \in Floats}}

\* analyze_population returns the sanitized dictionary.
Sanitize ==
    /\ population_ret = None
    /\ population_ret' = <<_sanitize_dict(population_arg)>>
    /\ UNCHANGED <<population_arg, engine_vars, store_vars>>

SanitizeSpec == CallInit(PopulationResults) /\ [][Sanitize]_vars

\* Batches created one after the other, also under an id that is already
\* held: a first one of at most MaxTasks files, and later ones of at most
\* MaxSharedTasks files together.
start_batch_analysis_again(request_batch_id, nv) ==
    /\ Len(dicts) = 0 => nv <= MaxTasks
    /\ Len(dicts) > 0 =>
           TasksCreated - Len(bg[1].image_paths) + nv <= MaxSharedTasks
    /\ StartBatch(request_batch_id, Request(nv, 0))

RecreateNext ==
    \/ \E b \in HeldBatchIds \cup {NoId}, nv \in 1..MaxTasks :
          start_batch_analysis_again(b, nv)
    \/ \E k \in DOMAIN bg : ProcessBatchStart(k)
    \/ \E k \in DOMAIN bg : LaunchTasks(k)
    \/ \E k \in DOMAIN bg : \E i \in DOMAIN bg[k].tasks : ProcessOneResume(k, i)
    \/ \E k \in DOMAIN bg : \E i \in DOMAIN bg[k].tasks :
          \E outcome \in Outcomes : ProcessOneFinish(k, i, outcome)
    \/ \E k \in DOMAIN bg : ProcessBatchFinalize(k)
    \/ \E k \in DOMAIN bg : ProcessBatchFault(k)

RecreateSpec == Init /\ [][RecreateNext]_vars

\* ------------------------------------------------------------------- claims

Running(k) == {i \in DOMAIN bg[k].tasks : bg[k].tasks[i] = "running"}
Waiting(k) == {i \in DOMAIN bg[k].tasks : bg[k].tasks[i] = "waiting"}

\* Every task of invocation k has ended and so has the coroutine itself.
RunOver(k) ==
    /\ bg[k].pc \in {"finalized", "faulted"}
    /\ \A i \in DOMAIN bg[k].tasks : bg[k].tasks[i] \in {"done", "skipped", "raised"}

CountStatus(results, status) ==
    Cardinality({j \in DOMAIN results : results[j].status = status})

\* C1: in every state where a batch record is terminal (COMPLETED or FAILED,
\* cancellation included), completed_images + failed_images equals
\* total_images and the result list has total_images entries.
C1_TerminalCountsComplete ==
    \A o \in DOMAIN dicts :
        Terminal(dicts[o].status) =>
            /\ dicts[o].completed_images + dicts[o].failed_images
                   = dicts[o].total_images
            /\ Len(dicts[o].results) = dicts[o].total_images

\* C2: in every state of every batch record, from its creation on,
\* completed_images + failed_images is at most total_images (the number of
\* valid images).
C2_CountersWithinTotal ==
    \A o \in DOMAIN dicts :
        dicts[o].completed_images + dicts[o].failed_images
            <= dicts[o].total_images

AllowedTransitions ==
    {<<PENDING, PROCESSING>>, <<PROCESSING, COMPLETED>>,
     <<PENDING, FAILED>>, <<PROCESSING, FAILED>>}

\* C3: the status of a batch record changes only along PENDING -> PROCESSING,
\* PROCESSING -> COMPLETED, PENDING -> FAILED, PROCESSING -> FAILED; COMPLETED
\* and FAILED are never left.
C3_StatusTransitions ==
    [][\A o \in DOMAIN dicts :
          dicts'[o].status # dicts[o].status =>
              <<dicts[o].status, dicts'[o].status>> \in AllowedTransitions]_vars

\* C4: a failure of the Analyzer on an item never leaves the task as an
\* exception and never marks the batch FAILED: a batch that was never
\* cancelled is not FAILED, and once its processing is over it is COMPLETED
\* with a recorded result for every one of its images.
C4_ItemFailureIsolated ==
    \A k \in DOMAIN bg :
        /\ \A i \in DOMAIN bg[k].tasks : bg[k].tasks[i] # "raised"
        /\ bg[k].pc # "faulted"
        /\ (bg[k].batch_info # 0 /\ bg[k].batch_info \notin cancelled) =>
               /\ dicts[bg[k].batch_info].status # FAILED
               /\ RunOver(k) =>
                     /\ dicts[bg[k].batch_info].status = COMPLETED
                     /\ \A i \in DOMAIN bg[k].image_paths :
                           \E j \in DOMAIN dicts[bg[k].batch_info].results :
                               dicts[bg[k].batch_info].results[j].image_path
                                   = bg[k].image_paths[i]

\* C5: each finished item increments exactly one counter, once, the one that
\* matches the status of the result recorded for it (every step changes
\* completed_images and failed_images by the number of completed and failed
\* results it records); hence in a COMPLETED batch completed_images and
\* failed_images are the numbers of completed and of failed results.
C5_CountersMatchResults ==
    /\ [](\A o \in DOMAIN dicts :
            dicts[o].status = COMPLETED =>
                /\ dicts[o].completed_images
                       = CountStatus(dicts[o].results, COMPLETED)
                /\ dicts[o].failed_images
                       = CountStatus(dicts[o].results, FAILED))
    /\ [][\A k \in DOMAIN bg :
            (bg[k].batch_info # 0 /\ bg'[k].batch_info = bg[k].batch_info
             /\ \A k2 \in DOMAIN bg : bg[k2].batch_info = bg[k].batch_info => k2 = k)
            =>
            /\ dicts'[bg[k].batch_info].completed_images
                   - dicts[bg[k].batch_info].completed_images
               = CountStatus(bg'[k].results, COMPLETED)
                   - CountStatus(bg[k].results, COMPLETED)
            /\ dicts'[bg[k].batch_info].failed_images
                   - dicts[bg[k].batch_info].failed_images
               = CountStatus(bg'[k].results, FAILED)
                   - CountStatus(bg[k].results, FAILED)]_vars

\* C6: at every instant at most CONCURRENCY_LIMIT tasks of one batch run are
\* between invoking the Analyzer and getting its result; each of them holds
\* one permit of the semaphore, and the others wait or have ended.
C6_ConcurrencyBounded ==
    \A k \in DOMAIN bg :
        /\ Cardinality(Running(k)) <= CONCURRENCY_LIMIT
        /\ bg[k].pc # "scheduled" =>
               Cardinality(Running(k)) + bg[k].semaphore = CONCURRENCY_LIMIT

\* The limit is reached and a task is waiting for a permit.
C6_Witness ==
    \E k \in DOMAIN bg :
        /\ Cardinality(Running(k)) = CONCURRENCY_LIMIT
        /\ Waiting(k) # {}

\* C7: the result list exposed for a batch is index-aligned with its valid
\* images: results[i] is the result of the i-th valid image.
C7_ResultsIndexAligned ==
    \A o \in DOMAIN dicts :
        \A i \in DOMAIN dicts[o].results :
            /\ i \in DOMAIN bg[o].image_paths
            /\ dicts[o].results[i].image_path = bg[o].image_paths[i]

\* C8: after a Cancel that succeeded, the status of the batch is FAILED with
\* the cancellation message attached, and stays so through the end of the
\* tasks and finalization.
C8_CancelSticks ==
    \A o \in cancelled :
        /\ dicts[o].status = FAILED
        /\ dicts[o].error_message = CancelMessage

\* C9: Cancel on a batch whose status is COMPLETED or FAILED answers with
\* the state error (400) and leaves the batch records unchanged.
C9_CancelTerminalRejected ==
    [][\A b \in AllBatchIds :
          (/\ batch_analysis_status[b] # 0
           /\ Terminal(dicts[batch_analysis_status[b]].status)
           /\ cancel_batch_analysis(b))
          => /\ response'.op = "cancel"
             /\ response'.code = 400
             /\ dicts' = dicts
             /\ batch_analysis_status' = batch_analysis_status
             /\ bg' = bg]_vars

\* A Cancel was refused on a batch that an earlier Cancel had stopped.
C9_Witness ==
    /\ response = [op |-> "cancel", code |-> 400]
    /\ \E o \in cancelled : dicts[o].status = FAILED

\* C10: an item in flight when a Cancel succeeds runs to completion (it is
\* never skipped) and its result is recorded: once the processing of its
\* batch is over, Results answers with a list that holds its result.
C10_InFlightRecorded ==
    \A t \in inflight_at_cancel :
        LET k == t[1]
            i == t[2]
            answer == BatchResultsResponse(bg[k].batch_id)
        IN /\ bg[k].tasks[i] \in {"running", "done", "raised"}
           /\ RunOver(k) =>
                 /\ answer.code = 200
                 /\ \E j \in DOMAIN answer.results :
                       answer.results[j].image_path = bg[k].image_paths[i]

\* C11: after a Cancel that succeeded on a batch, no task of that batch
\* starts an Analyzer call: a task that had not invoked the Analyzer when the
\* Cancel succeeded never invokes it.
C11_NoInvocationAfterCancel ==
    [][\A k \in DOMAIN bg : \A i \in DOMAIN bg[k].tasks :
          (bg[k].tasks[i] # "running" /\ bg'[k].tasks[i] = "running")
              => bg'[k].batch_info \notin cancelled]_vars

\* C12: Results on a batch whose status is PROCESSING answers with the
\* 'still in progress' error (202) and exposes no result; in every other
\* status it answers with the recorded result list of the batch; in both cases
\* it leaves the batch records unchanged.
C12_ResultsOnlyWhenNotProcessing ==
    [][\A b \in AllBatchIds :
          (batch_analysis_status[b] # 0 /\ get_batch_results(b))
          => /\ response'.op = "results"
             /\ IF dicts[batch_analysis_status[b]].status = PROCESSING
                THEN /\ response'.code = 202
                     /\ "results" \notin DOMAIN response'
                ELSE /\ response'.code = 200
                     /\ response'.results
                            = dicts[batch_analysis_status[b]].results
             /\ dicts' = dicts
             /\ batch_analysis_status' = batch_analysis_status
             /\ bg' = bg]_vars

\* Results answered with the results of a batch whose processing is over.
C12_Witness ==
    /\ response.op = "results"
    /\ response.code = 200
    /\ Len(response.results) > 0

\* A step of Status or of Progress on batch id b.
ReadStep(b) == get_batch_status(b) \/ get_batch_analysis_progress(b)

\* The progress_percent of the answer in response (Status or Progress).
AnsweredPercent(r) ==
    IF r.op = "status" THEN r.status_info.progress_percent
    ELSE r.progress_percent

\* C13 (as stated): Status and Progress leave the batch records and their
\* tasks unchanged, and the progress_percent they return is exactly
\* completed_images / total_images * 100.
C13_ReadOnlyExactPercent ==
    [][\A b \in AllBatchIds :
          (response'.op \in {"status", "progress"} /\ ReadStep(b))
          => /\ dicts' = dicts
             /\ batch_analysis_status' = batch_analysis_status
             /\ bg' = bg
             /\ batch_analysis_status[b] # 0 =>
                   AnsweredPercent(response')
                       * dicts[batch_analysis_status[b]].total_images
                   = 1000 * dicts[batch_analysis_status[b]].completed_images]_vars

\* C13 (amended): Status and Progress leave the batch records and their tasks
\* unchanged, and the progress_percent they return is
\* completed_images / total_images * 100 rounded to one decimal: the multiple
\* of 0.1 nearest to it.
C13_ReadOnlyRoundedPercent ==
    [][\A b \in AllBatchIds :
          (response'.op \in {"status", "progress"} /\ ReadStep(b))
          => /\ dicts' = dicts
             /\ batch_analysis_status' = batch_analysis_status
             /\ bg' = bg
             /\ batch_analysis_status[b] # 0 =>
                   LET t == dicts[batch_analysis_status[b]].total_images
                       c == dicts[batch_analysis_status[b]].completed_images
                       d == AnsweredPercent(response') * t - 1000 * c
                   IN /\ 2 * d <= t
                      /\ 2 * (0 - d) <= t]_vars

\* Status or Progress answered with a percentage that is not a whole number
\* of tenths before rounding, while images of the batch were being analyzed.
C13_Witness ==
    /\ response.op \in {"status", "progress"}
    /\ response.code = 200
    /\ AnsweredPercent(response) \notin {0, 250, 500, 750, 1000}
    /\ \E k \in DOMAIN bg : Running(k) # {}

\* C14: Create with an empty image list or with only references that resolve
\* to nothing fails with a validation error (422, 400), allocates no batch
\* record and starts no background task: the records, the map and the tasks
\* are unchanged.
C14_CreateWithoutValidImageRejected ==
    [][\A b \in HeldBatchIds \cup {NoId} : \A ni \in {0, MaxInvalid} :
          (response'.op = "create" /\ start_batch_analysis(b, 0, ni))
          => /\ response'.op = "create"
             /\ response'.code = IF ni = 0 THEN 422 ELSE 400
             /\ dicts' = dicts
             /\ batch_analysis_status' = batch_analysis_status
             /\ bg' = bg]_vars

\* A Create of dangling references only was refused while a batch existed.
C14_Witness ==
    /\ response = [op |-> "create", code |-> 400]
    /\ Len(dicts) > 0

\* The references of a sequence of results.
ResultPaths(results) == {results[j].image_path : j \in DOMAIN results}

\* C15: Create with valid and invalid references reports exactly the invalid
\* ones in invalid_images and sets total_images to the number of valid ones;
\* the batch has one task per valid reference and none for an invalid one;
\* a task invokes the Analyzer at most once and records at most one result,
\* for its own reference; no result of a record is that of an invalid
\* reference.
C15_OnlyValidImagesProcessed ==
    /\ [](\A k \in DOMAIN bg :
            /\ Len(bg[k].image_paths) = dicts[k].total_images
            /\ DOMAIN bg[k].tasks = DOMAIN bg[k].image_paths
            /\ \A i \in DOMAIN bg[k].image_paths :
                  /\ PathExists(bg[k].image_paths[i])
                  /\ \A j \in DOMAIN dicts[k].invalid_images :
                        dicts[k].invalid_images[j] # bg[k].image_paths[i]
            /\ ResultPaths(bg[k].results)
                   \subseteq {bg[k].image_paths[i] : i \in DOMAIN bg[k].image_paths}
            /\ Cardinality(ResultPaths(bg[k].results)) = Len(bg[k].results)
            /\ \A j \in DOMAIN dicts[k].results :
                  /\ PathExists(dicts[k].results[j].image_path)
                  /\ \A i \in DOMAIN dicts[k].invalid_images :
                        dicts[k].invalid_images[i]
                            # dicts[k].results[j].image_path)
    /\ [][/\ \A b \in HeldBatchIds \cup {NoId} : \A nv \in 1..MaxTasks :
               \A ni \in {0, MaxInvalid} :
                  (response'.op = "create" /\ start_batch_analysis(b, nv, ni))
                  => /\ response'.code = 200
                     /\ response'.total_images = nv
                     /\ response'.invalid_images
                            = [j \in 1..ni |-> Request(nv, ni)[j]]
                     /\ \A j \in 1..ni : ~PathExists(Request(nv, ni)[j])
                     /\ dicts'[Len(dicts')].total_images = nv
                     /\ dicts'[Len(dicts')].invalid_images
                            = response'.invalid_images
                     /\ bg'[Len(bg')].image_paths
                            = [j \in 1..nv |-> Request(nv, ni)[ni + j]]
        /\ \A k \in DOMAIN bg : \A i \in DOMAIN bg[k].tasks :
               (bg[k].tasks[i] \in {"done", "raised", "skipped"})
                   => bg'[k].tasks[i] = bg[k].tasks[i]]_vars

\* A batch created with dangling references completed with a result for
\* each of its valid images.
C15_Witness ==
    \E o \in DOMAIN dicts :
        /\ dicts[o].status = COMPLETED
        /\ Len(dicts[o].invalid_images) > 0
        /\ dicts[o].total_images > 1
        /\ Len(dicts[o].results) = dicts[o].total_images

\* A result of the record filed under b is a completed one.
HasCompletedResult(b) ==
    \E j \in DOMAIN dicts[batch_analysis_status[b]].results :
        dicts[batch_analysis_status[b]].results[j].status = COMPLETED

\* C16: population statistics are returned only for a batch whose status is
\* COMPLETED and that has a completed result; for a PENDING, PROCESSING or
\* FAILED batch (cancelled included) and for a batch without a completed
\* result the call fails (400) and returns no statistics.
C16_StatisticsOnlyWhenCompleted ==
    [][\A b \in AllBatchIds :
          (/\ response'.op = "population-stats"
           /\ batch_analysis_status[b] # 0
           /\ get_population_statistics(b))
          => IF /\ dicts[batch_analysis_status[b]].status = COMPLETED
                /\ HasCompletedResult(b)
             THEN response'.code = 200
             ELSE /\ response'.code = 400
                  /\ "total_fish" \notin DOMAIN response'
                  /\ "successful_analyses" \notin DOMAIN response']_vars

\* Statistics were refused while every batch there is was one that a Cancel
\* stopped with completed results in its record.
C16_Witness ==
    /\ response.op = "population-stats"
    /\ response.code = 400
    /\ HeldBatchIds # {}
    /\ \A b \in HeldBatchIds :
          /\ batch_analysis_status[b] \in cancelled
          /\ dicts[batch_analysis_status[b]].status = FAILED
          /\ HasCompletedResult(b)

\* The run k of a batch is over with mixed outcomes: every analysis was made
\* (no Cancel came in), at least one worked and at least one failed.
C17_MixedOutcomes(k) ==
    /\ RunOver(k)
    /\ bg[k].batch_info \notin cancelled
    /\ \A i \in DOMAIN bg[k].tasks : bg[k].tasks[i] \in {"done", "raised"}
    /\ \E i \in DOMAIN bg[k].tasks : bg[k].tasks[i] = "done"
    /\ \E i \in DOMAIN bg[k].tasks : bg[k].tasks[i] = "raised"

C17_Ended(k, how) ==
    Cardinality({i \in DOMAIN bg[k].tasks : bg[k].tasks[i] = how})

\* C17: for a batch that has run to its end with mixed outcomes, the
\* population statistics are returned and count its analyses:
\* successful_analyses is the number of analyses that worked, failed_analyses
\* the number of those that failed, and total_fish their sum.
C17_StatisticsCountFailures ==
    [][\A b \in AllBatchIds : \A k \in DOMAIN bg :
          (/\ response'.op = "population-stats"
           /\ get_population_statistics(b)
           /\ batch_analysis_status[b] # 0
           /\ bg[k].batch_info = batch_analysis_status[b]
           /\ C17_MixedOutcomes(k))
          => /\ response'.code = 200
             /\ response'.successful_analyses = C17_Ended(k, "done")
             /\ response'.failed_analyses = C17_Ended(k, "raised")
             /\ response'.total_fish
                   = C17_Ended(k, "done") + C17_Ended(k, "raised")]_vars

\* ttl_seconds is given and positive.
PositiveTtl(ttl_seconds) == ttl_seconds # None /\ ttl_seconds[1] > 0

\* C18: a get of key k that follows put(k, b, ct) immediately returns exactly
\* (b, ct), whether or not k held another entry before and whether or not the
\* put ran the sweep (for a put without a ttl, and for a put with a ttl that
\* has not elapsed when the put returns).
C18_PutGetRoundTrip ==
    [][\A key \in Keys : \A blob \in Blobs : \A ttl_seconds \in Ttls :
       \A elapsed \in {0, 2 * ClockStep} :
          (/\ returned'.op = "put"
           /\ returned'.key = key
           /\ put(key, blob.data, blob.content_type, ttl_seconds, elapsed)
           /\ (PositiveTtl(ttl_seconds) => elapsed <= ttl_seconds[1]))
          => GetReturn(_data', now', key)
                 = [hit |-> TRUE, data |-> blob.data,
                    content_type |-> blob.content_type]]_vars

\* A put without expiry has just returned, at an instant at which the sweep
\* ran again, and the other key holds an entry.
C18_Witness ==
    /\ returned.op = "put"
    /\ _last_gc = now
    /\ now > StartClock
    /\ DOMAIN _data = Keys
    /\ _data[returned.key].expires_at = None

\* C19: the entry of a put with a (positive) ttl, as long as the key is not
\* put again or deleted, is a hit for get and for exists at every instant up
\* to ttl after the put, and a miss for both at every later instant.
C19_TtlExpiry ==
    \A key \in DOMAIN put_at :
        PositiveTtl(put_at[key].ttl_seconds) =>
            /\ GetReturn(_data, now, key).hit
                   = (now <= put_at[key].time + put_at[key].ttl_seconds[1])
            /\ ExistsReturn(_data, now, key)
                   = (now <= put_at[key].time + put_at[key].ttl_seconds[1])

\* A get missed on a key whose ttl had elapsed.
C19_Witness ==
    /\ returned.op = "get"
    /\ ~returned.value.hit
    /\ returned.key \in DOMAIN put_at
    /\ PositiveTtl(put_at[returned.key].ttl_seconds)
    /\ now > put_at[returned.key].time + put_at[returned.key].ttl_seconds[1]

\* C20: in every store state and at every clock value, exists(k) is true
\* exactly when get(k) at the same instant is a hit, for every key.
C20_ExistsAgreesWithGet ==
    \A key \in Keys :
        ExistsReturn(_data, now, key) = GetReturn(_data, now, key).hit

\* One key holds an expired entry not yet swept, the other a live one.
C20_Witness ==
    /\ \E key \in DOMAIN _data : Expired(_data[key], now)
    /\ \E key \in DOMAIN _data : ~Expired(_data[key], now)

\* C21: delete never fails and is idempotent: it can be called on every key,
\* present or absent; on an absent key it leaves the store unchanged; it
\* removes the key and leaves every other entry as it was; a second delete
\* of the same key changes nothing more; and after it get and exists of the
\* key return a miss.
C21_DeleteIdempotent ==
    /\ [](/\ \A key \in Keys : ENABLED delete(key)
          /\ (returned.op = "delete") =>
                /\ returned.key \notin DOMAIN _data
                /\ GetReturn(_data, now, returned.key) = [hit |-> FALSE]
                /\ ExistsReturn(_data, now, returned.key) = FALSE)
    /\ [][\A key \in Keys :
            (returned'.op = "delete" /\ delete(key)) =>
               /\ DOMAIN _data' = DOMAIN _data \ {key}
               /\ \A x \in DOMAIN _data' : _data'[x] = _data[x]
               /\ (key \notin DOMAIN _data) => (_data' = _data)
               /\ (returned = [op |-> "delete", key |-> key])
                     => (_data' = _data)
               /\ _last_gc' = _last_gc]_vars

\* A delete has returned, its key is gone and the other key still holds its
\* entry.
C21_Witness ==
    /\ returned.op = "delete"
    /\ returned.key \notin DOMAIN _data
    /\ DOMAIN _data = Keys \ {returned.key}

\* The keys built for batch id `batch_id`.
KeysOfBatch(batch_id) ==
    {make_mem_image_key(batch_id, <<"a">>)}

\* C22: delete_prefix(p) removes exactly the entries whose key starts with
\* p, returns their number and leaves every other entry as it was; with the
\* prefix of one batch id, mem://<batch_id>/, it removes no entry whose key
\* was built for another batch id.
C22_DeletePrefixExact ==
    [][\A prefix \in Prefixes :
          (returned'.op = "delete_prefix" /\ delete_prefix(prefix)) =>
             /\ DOMAIN _data'
                   = {k \in DOMAIN _data :
                         ~(/\ Len(k) >= Len(prefix)
                           /\ \A i \in 1..Len(prefix) : k[i] = prefix[i])}
             /\ \A x \in DOMAIN _data' : _data'[x] = _data[x]
             /\ returned'.value
                   = Cardinality(DOMAIN _data) - Cardinality(DOMAIN _data')
             /\ \A batch_id \in KeyBatchIds :
                   (prefix = make_mem_image_key(batch_id, <<>>)) =>
                      \A other \in KeyBatchIds \ {batch_id} :
                         \A k \in KeysOfBatch(other) :
                            (k \in DOMAIN _data) => (k \in DOMAIN _data')]_vars

\* The cleanup of batch id "1" has removed its one entry while batch id
\* "10" keeps its own.
C22_Witness ==
    /\ returned.op = "delete_prefix"
    /\ returned.prefix = make_mem_image_key(<<"1">>, <<>>)
    /\ returned.value = 1
    /\ DOMAIN _data = KeysOfBatch(<<"1", "0">>)

\* The operations that take a batch id.
BatchIdOps ==
    {"status", "progress", "results", "paginated", "comprehensive",
     "cancel", "population-stats", "download"}

\* A step of one of the operations that take a batch id, called with b.
LookupStep(b) ==
    \/ get_batch_status(b)
    \/ get_batch_analysis_progress(b)
    \/ get_batch_results(b)
    \/ get_population_statistics(b)
    \/ cancel_batch_analysis(b)
    \/ get_comprehensive_batch_results(b)
    \/ \E format \in Formats \cap ValidFormats :
          download_batch_results(b, format)
    \/ \E query \in Queries : get_batch_results_paginated(b, query)

\* C23: every operation that takes a batch id, called with an id for which
\* no record exists, answers 404 (not found) and leaves the batch records and
\* the mapping from ids to records as they were.
C23_UnknownIdNotFound ==
    [][\A b \in AllBatchIds :
          (/\ response'.op \in BatchIdOps
           /\ batch_analysis_status[b] = 0
           /\ LookupStep(b))
          => /\ response'.code = 404
             /\ UNCHANGED <<batch_analysis_status, dicts, population_vars>>]_vars

\* The invocation of _process_batch_images for batch k is over: the coroutine
\* has returned, through finalization or through its except block, and every
\* task has returned or raised (none is waiting for a permit or running).
Ended(k) ==
    /\ bg[k].pc \in {"finalized", "faulted"}
    /\ \A i \in DOMAIN bg[k].tasks :
          bg[k].tasks[i] \in {"done", "skipped", "raised"}

\* C24: under fair scheduling, with every Analyzer call coming back, every
\* created batch ends: its coroutine and all its tasks are over, its status
\* is terminal and every permit of its semaphore is released; and a batch
\* that has ended and was never cancelled is COMPLETED with completed_at set.
C24_EveryBatchEnds ==
    /\ \A k \in 1..(MaxSharedTasks + 1) :
          (k \in DOMAIN bg) ~> (/\ k \in DOMAIN bg
                                /\ Ended(k)
                                /\ Terminal(dicts[k].status)
                                /\ bg[k].semaphore = NewSemaphore)
    /\ [](\A k \in DOMAIN bg :
            (Ended(k) /\ k \notin cancelled)
               => (dicts[k].status = COMPLETED /\ dicts[k].completed_at))

\* Task i of invocation k has ended: it returned a result, raised, or was
\* skipped.
TaskEnded(k, i) == bg[k].tasks[i] \in {"done", "raised", "skipped"}

\* C25: the store entry of a mem:// image is gone once the task of that image
\* has ended, whichever way it ended, so that no entry of a batch's images is
\* left once all its tasks have ended; and a step of the engine removes only
\* the entries of the images whose task ends in that step, leaving every
\* other entry as it was.
C25_StoreEntryReleased ==
    /\ [](\A k \in DOMAIN bg : \A i \in DOMAIN bg[k].tasks :
            (TaskEnded(k, i) /\ IsMem(bg[k].image_paths[i]))
               => MemKey(bg[k].image_paths[i]) \notin DOMAIN _data)
    /\ [][(response'.op # "upload") =>
            /\ DOMAIN _data' \subseteq DOMAIN _data
            /\ \A key \in DOMAIN _data' : _data'[key] = _data[key]
            /\ \A key \in DOMAIN _data \ DOMAIN _data' :
                  \E k \in DOMAIN bg : \E i \in DOMAIN bg[k].tasks :
                     /\ IsMem(bg[k].image_paths[i])
                     /\ MemKey(bg[k].image_paths[i]) = key
                     /\ ~TaskEnded(k, i)
                     /\ bg'[k].tasks[i] \in {"done", "raised", "skipped"}]_vars

\* A batch with both stored images has ended, the task of one having raised
\* and the task of the other having been skipped, and the store is empty.
C25_Witness ==
    /\ \E k \in DOMAIN bg :
          /\ bg[k].image_paths = <<1, 2, -1, -2>>
          /\ bg[k].tasks[3] = "raised"
          /\ bg[k].tasks[4] = "skipped"
          /\ \A i \in DOMAIN bg[k].tasks : TaskEnded(k, i)
    /\ DOMAIN _data = {}

\* A batch of one stored image has ended while the entry of the other image
\* is still in the store.
C25_WitnessOtherKeyKept ==
    /\ \E k \in DOMAIN bg :
          /\ bg[k].image_paths = <<-1>>
          /\ TaskEnded(k, 1)
    /\ DOMAIN _data = {MemKey(-2)}

\* The entry of key has an expiry instant and that instant has passed.
ExpiryPassed(key) ==
    /\ key \in DOMAIN _data
    /\ _data[key].expires_at # None
    /\ _data[key].expires_at[1] < now

\* C26: a get or an exists of a key whose entry's expiry instant has passed
\* removes that entry, and no other, and returns a miss; a get or an exists
\* of any other key (absent, live or without expiry) leaves the store as it
\* was, and returns a hit when the key is present.
C26_ExpiredRemovedOnRead ==
    [][\A key \in Keys :
          (/\ returned'.op \in {"get", "exists"}
           /\ returned'.key = key
           /\ (get(key) \/ exists(key)))
          => /\ _last_gc' = _last_gc
             /\ IF ExpiryPassed(key)
                THEN /\ DOMAIN _data' = DOMAIN _data \ {key}
                     /\ \A x \in DOMAIN _data' : _data'[x] = _data[x]
                     /\ returned'.op = "get" => ~returned'.value.hit
                     /\ returned'.op = "exists" => ~returned'.value
                ELSE /\ _data' = _data
                     /\ returned'.op = "get"
                           => (returned'.value.hit = (key \in DOMAIN _data))
                     /\ returned'.op = "exists"
                           => (returned'.value = (key \in DOMAIN _data))]_vars

\* An exists has missed on a key put with a ttl that has elapsed, the key is
\* no longer in the store, and the other key still is.
C26_Witness ==
    /\ returned.op = "exists"
    /\ returned.value = FALSE
    /\ returned.key \in DOMAIN put_at
    /\ PositiveTtl(put_at[returned.key].ttl_seconds)
    /\ now > put_at[returned.key].time + put_at[returned.key].ttl_seconds[1]
    /\ DOMAIN _data = Keys \ {returned.key}

\* The sweep ran in the step: _last_gc was set.
SweepRan == _last_gc' # _last_gc

\* C27: the sweep runs only inside put, and not before a full interval has
\* passed since the last sweep; when it runs, no entry whose expiry instant
\* has passed is left, and every other entry, the one just written included,
\* is kept as it is; a put in which it does not run removes nothing.
C27_SweepOncePerInterval ==
    [][/\ SweepRan => /\ returned'.op = "put"
                      /\ now' - _last_gc >= _gc_interval_seconds
                      /\ _last_gc' = now'
       /\ \A key \in Keys : \A blob \in Blobs : \A ttl_seconds \in Ttls :
          \A elapsed \in {0, 2 * ClockStep} :
             (/\ returned'.op = "put"
              /\ returned'.key = key
              /\ put(key, blob.data, blob.content_type, ttl_seconds, elapsed))
             => LET written == [data |-> blob.data,
                                content_type |-> blob.content_type,
                                expires_at |->
                                    IF PositiveTtl(ttl_seconds)
                                    THEN <<now + ttl_seconds[1]>> ELSE None]
                    before == [x \in DOMAIN _data \cup {key} |->
                                 IF x = key THEN written ELSE _data[x]]
                    Passed(x) == /\ before[x].expires_at # None
                                 /\ before[x].expires_at[1] < now'
                IN IF SweepRan
                   THEN /\ DOMAIN _data' = {x \in DOMAIN before : ~Passed(x)}
                        /\ \A x \in DOMAIN _data' : _data'[x] = before[x]
                   ELSE _data' = before]_vars

\* A put has returned whose sweep ran: the entry it wrote is in the store,
\* and the other key, put with a ttl that has elapsed, is not.
C27_Witness ==
    /\ returned.op = "put"
    /\ _last_gc = now
    /\ now > StartClock
    /\ DOMAIN _data = {returned.key}
    /\ \E key \in DOMAIN put_at \ {returned.key} :
          /\ PositiveTtl(put_at[key].ttl_seconds)
          /\ now > put_at[key].time + put_at[key].ttl_seconds[1]

\* Thread t is inside the body of a store method.
InBody(t) ==
    threads[t].pc \in {"body", "check", "gc", "del", "gc_del", "release",
                       "raised"}

\* C28: the store calls of several threads are serialized by the lock: at
\* most one thread is inside a method body, and it holds the lock; what a
\* thread has read of the dict is still true when it acts on it (the entry
\* it tests is the entry of the key, the keys it is about to delete are in
\* the dict), so that no call raises; and a get returns the payload and the
\* content type of one and the same put.
C28_StoreSerialized ==
    /\ Cardinality({t \in Threads : InBody(t)}) <= 1
    /\ \A t \in Threads :
          /\ InBody(t) => _lock = t
          /\ threads[t].pc # "raised"
          /\ (threads[t].pc \in {"del", "gc_del"})
                => threads[t].keys \subseteq DOMAIN _data
          /\ (threads[t].pc = "check")
                => /\ threads[t].arg \in DOMAIN _data
                   /\ _data[threads[t].arg] = threads[t].entry[1]
          /\ (/\ threads[t].pc = "release"
              /\ threads[t].op = "get"
              /\ threads[t].ret[1].hit)
                => \E u \in Threads :
                      /\ threads[t].ret[1].data = BlobOf(u).data
                      /\ threads[t].ret[1].content_type = BlobOf(u).content_type

\* A thread is about to delete a key it has found in the dict while the
\* other thread waits for the lock to delete the same key.
C28_Witness ==
    /\ threads[1].pc = "del"
    /\ threads[1].op = "delete"
    /\ threads[2].pc = "lock"
    /\ threads[2].op = "delete"
    /\ threads[2].arg = threads[1].arg

\* C29: in an answer of Progress, a processing rate is given only when
\* completed_images > 0, an estimated completion time only when the status
\* is PROCESSING and a rate is given, and both are null in every other case:
\* when the status is PENDING, COMPLETED or FAILED, or nothing has completed.
C29_RateAndEstimateOnlyWhileProcessing ==
    (response.op = "progress" /\ response.code = 200) =>
        /\ response.processing_rate => response.completed_images > 0
        /\ response.estimated_completion_time
              => (response.status = PROCESSING /\ response.processing_rate)
        /\ (response.status # PROCESSING \/ response.completed_images = 0)
              => /\ ~response.processing_rate
                 /\ ~response.estimated_completion_time

\* C30: when the except block of the background coroutine handles a fault,
\* the batch is marked FAILED with the message of the fault, and every result
\* collected from the items finished so far is in the record's result list,
\* which is what Results then returns.
C30_FaultKeepsResults ==
    [][\A k \in DOMAIN bg :
          (bg[k].pc = "gather" /\ bg'[k].pc = "faulted") =>
             LET obj == batch_analysis_status[bg[k].batch_id]
                 answer == BatchResultsResponse(bg[k].batch_id)'
             IN /\ dicts'[obj].status = FAILED
                /\ dicts'[obj].error_message = FaultMessage
                /\ \A j \in DOMAIN bg[k].results :
                      \E m \in DOMAIN dicts'[obj].results :
                         dicts'[obj].results[m] = bg[k].results[j]
                /\ answer.code = 200
                /\ \A j \in DOMAIN bg[k].results :
                      \E m \in DOMAIN answer.results :
                         answer.results[m] = bg[k].results[j]]_vars

\* C31: with the size column being the first of total_length, standard_length
\* and fork_length that has a value in some row, and its n values the
\* samples: when there is no such column or n < 3 the three buckets are
\* zeroed; otherwise every sample is in exactly one of small (x <= p33),
\* medium (p33 < x <= p67) and large (x > p67), the counts are the numbers of
\* such samples and add up to n, and each range is the least and the greatest
\* member of its bucket (zeros for an empty bucket). In the six lengths
\* 10, 12, 14, 16, 18, 100 the length 100 is in large.
C31_Column(df) ==
    IF \E r \in DOMAIN df : "total_length" \in DOMAIN df[r]
    THEN <<"total_length">>
    ELSE IF \E r \in DOMAIN df : "standard_length" \in DOMAIN df[r]
         THEN <<"standard_length">>
         ELSE IF \E r \in DOMAIN df : "fork_length" \in DOMAIN df[r]
              THEN <<"fork_length">>
              ELSE None

C31_Members(x, kind, p33, p67) ==
    {i \in DOMAIN x :
        \/ kind = "small" /\ 100 * x[i] <= p33
        \/ kind = "medium" /\ 100 * x[i] > p33 /\ 100 * x[i] <= p67
        \/ kind = "large" /\ 100 * x[i] > p67}

C31_BucketOf(bucket, x, members) ==
    /\ bucket.count = Cardinality(members)
    /\ members = {} => bucket.range = <<0, 0>>
    /\ members # {} =>
          /\ \E i \in members : bucket.range[1] = x[i]
          /\ \E i \in members : bucket.range[2] = x[i]
          /\ \A i \in members : bucket.range[1] <= x[i] /\ x[i] <= bucket.range[2]

C31_SizeClassesPartition ==
    population_ret # None =>
        LET df == population_arg
            c == population_ret[1]
            column == C31_Column(df)
            x == IF column = None THEN <<>> ELSE dropna(df, column[1])
            p33 == quantile(x, 33)
            p67 == quantile(x, 67)
            S == C31_Members(x, "small", p33, p67)
            M == C31_Members(x, "medium", p33, p67)
            L == C31_Members(x, "large", p33, p67)
        IN /\ Len(x) < 3 => c = EmptyClassification
           /\ Len(x) >= 3 =>
                 /\ S \cup M \cup L = DOMAIN x
                 /\ S \cap M = {} /\ S \cap L = {} /\ M \cap L = {}
                 /\ C31_BucketOf(c.small, x, S)
                 /\ C31_BucketOf(c.medium, x, M)
                 /\ C31_BucketOf(c.large, x, L)
                 /\ c.small.count + c.medium.count + c.large.count = Len(x)
           /\ df = OutlierFrame => c.large.range[2] = 100

C31_Witness ==
    /\ population_arg = OutlierFrame
    /\ population_ret # None
    /\ population_ret[1].small.count = 2
    /\ population_ret[1].large.range = <<18, 100>>

C31_WitnessSecondColumn ==
    /\ population_ret # None
    /\ C31_Column(population_arg) = <<"standard_length">>
    /\ population_ret[1].medium.count > 0

\* C32: whether a pair of columns is evaluated depends on that pair only. For
\* every two measurement columns, with the rows that have a value in both: a
\* correlation of the pair is emitted exactly when there are at least 3 such
\* rows and the coefficient computed on exactly those rows is a number of
\* magnitude above 0.3, and the emitted coefficient is that one. A third
\* column missing in some rows neither removes rows from the pair nor
\* suppresses its correlation.
C32_RowsOfPair(df, col1, col2) ==
    LET Complete(row) == col1 \in DOMAIN row /\ col2 \in DOMAIN row
    IN SelectSeq(df, Complete)

C32_Emitted(correlations, col1, col2) ==
    {k \in DOMAIN correlations :
        /\ correlations[k].measurement1 = Title[col1]
        /\ correlations[k].measurement2 = Title[col2]}

C32_PairwiseCorrelation ==
    population_ret # None =>
        LET df == population_arg
            correlations == population_ret[1]
            cols == columns(df)
        IN \A i, j \in DOMAIN cols :
              (i < j /\ cols[i] # "confidence") =>
                  LET rows == C32_RowsOfPair(df, cols[i], cols[j])
                      r == corr(dropna(rows, cols[i]), dropna(rows, cols[j]))
                      emitted == C32_Emitted(correlations, cols[i], cols[j])
                      due == /\ Len(rows) >= 3
                             /\ r # None
                             /\ AbsAbove(r[1], 3)
                  IN /\ due <=> emitted # {}
                     /\ \A k \in emitted :
                           correlations[k].correlation_coefficient =
                               Coefficient(r[1])

\* C33: for every column whose values (at least 2) are all the same, the
\* distributions hold one entry of that column, with std_dev 0.0 and
\* skewness 0.0, and no emitted correlation names the column.
C33_ConstantColumns(df) ==
    {c \in {columns(df)[i] : i \in DOMAIN columns(df)} :
        LET data == dropna(df, c)
        IN /\ Len(data) >= 2
           /\ \A i, j \in DOMAIN data : data[i] = data[j]}

C33_ConstantColumnIsZero ==
    population_ret # None =>
        LET distributions == population_ret[1].distributions
            correlations == population_ret[1].correlations
        IN \A c \in C33_ConstantColumns(population_arg) :
              /\ Cardinality({k \in DOMAIN distributions :
                     distributions[k].measurement_name = Title[c]}) = 1
              /\ \A k \in DOMAIN distributions :
                    distributions[k].measurement_name = Title[c] =>
                        /\ distributions[k].std_dev = PositiveZero
                        /\ distributions[k].skewness = 0
              /\ \A k \in DOMAIN correlations :
                    /\ correlations[k].measurement1 # Title[c]
                    /\ correlations[k].measurement2 # Title[c]

\* C34: the distributions hold exactly one entry for each measurement name
\* that at least 2 of the successful results carry, with sample_size the
\* number of results carrying it, and no other entry: none for the mean
\* confidence of a result, none for a detection count, none for a measurement
\* that fewer than 2 results carry.
C34_Carriers(results, column) ==
    {i \in DOMAIN results :
        \E k \in DOMAIN results[i].measurements :
            measurement_name(results[i].measurements[k].name) = column}

C34_MeasurementsOnly ==
    population_ret # None =>
        LET results == population_arg
            distributions == population_ret[1]
            measured == {measurement_name(n) : n \in MeasurementNames}
        IN /\ \A c \in measured :
                 LET entries == {k \in DOMAIN distributions :
                                    distributions[k].measurement_name = Title[c]}
                     carried == Cardinality(C34_Carriers(results, c))
                 IN /\ carried >= 2 => Cardinality(entries) = 1
                    /\ carried < 2 => entries = {}
                    /\ \A k \in entries :
                          distributions[k].sample_size = carried
           /\ \A k \in DOMAIN distributions :
                 \E c \in measured :
                     distributions[k].measurement_name = Title[c]

\* C35: in the value analyze_population returns, no number at any depth of
\* dictionaries and lists is NaN or infinite: the returned value is the
\* dictionary that was built with every such number replaced by 0.0 and
\* everything else, the finite numbers included, as it was.
RECURSIVE C35_NonFinite(_)
C35_NonFinite(value) ==
    IF value.kind = "float"
    THEN value.is # "finite"
    ELSE IF value.kind \in {"dict", "list"}
         THEN \E k \in DOMAIN value.items : C35_NonFinite(value.items[k])
         ELSE FALSE

RECURSIVE C35_Replaced(_)
C35_Replaced(value) ==
    IF value.kind = "float"
    THEN IF value.is = "finite" THEN value ELSE Float("finite", 0)
    ELSE IF value.kind \in {"dict", "list"}
         THEN [kind |-> value.kind,
               items |-> [k \in DOMAIN value.items |->
                             C35_Replaced(value.items[k])]]
         ELSE value

C35_NoNanNoInfinity ==
    population_ret # None =>
        /\ ~C35_NonFinite(population_ret[1])
        /\ population_ret[1] = C35_Replaced(population_arg)

C35_Witness ==
    /\ population_ret # None
    /\ population_arg.items.size_classification.items.small.items.range.items
           = <<Float("inf", 0), Float("finite", 25)>>
    /\ population_arg.items.distributions.items # <<>>
    /\ population_arg.items.distributions.items[1].items.mean = Float("nan", 0)
    /\ population_arg.items.processing_time_total = Float("-inf", 0)
    /\ population_ret[1].items.size_classification.items.small.items.range.items
           = <<Float("finite", 0), Float("finite", 25)>>

\* C36: Create never replaces an existing batch record: an id that is held
\* keeps the record it has, with its status, counters and results, in every
\* step; and the steps of the invocation started for one batch leave every
\* record created after that batch as it is.
C36_CreateKeepsRecord ==
    [][/\ \A b \in AllBatchIds :
             batch_analysis_status[b] # 0 =>
                 /\ batch_analysis_status'[b] = batch_analysis_status[b]
                 /\ (response'.op = "create" =>
                        dicts'[batch_analysis_status'[b]]
                            = dicts[batch_analysis_status[b]])
       /\ \A k \in DOMAIN bg : \A j \in DOMAIN dicts :
             (j > k /\ bg'[k] # bg[k]) => dicts'[j] = dicts[j]]_vars

\* C37: a record whose status finalization or the fault handler has made
\* COMPLETED or FAILED (a record no Cancel has acted on) is not changed by
\* the tasks any more: every step leaves its completed_images, failed_images,
\* results and current_image as they are.
C37_TerminalRecordFrozen ==
    [][\A j \in DOMAIN dicts :
          (Terminal(dicts[j].status) /\ j \notin cancelled) =>
              /\ dicts'[j].completed_images = dicts[j].completed_images
              /\ dicts'[j].failed_images = dicts[j].failed_images
              /\ dicts'[j].results = dicts[j].results
              /\ dicts'[j].current_image = dicts[j].current_image]_vars

\* C38: a paginated read has no side effect: whatever the page, the sort
\* order and the filter, the step leaves the stored result list of every
\* batch, in order and content, as it was, and Results answers after the
\* step what it answered before it.
C38_PaginatedReadOnly ==
    [][response'.op = "paginated" =>
          /\ \A j \in DOMAIN dicts : dicts'[j].results = dicts[j].results
          /\ \A b \in AllBatchIds :
                BatchResultsResponse(b)' = BatchResultsResponse(b)]_vars

\* C39: the entry of a put without a ttl (no ttl, or a ttl that is not
\* positive) has no expiry. As long as the key is not deleted or put again,
\* the entry is in the store and is a hit for get and for exists at every
\* instant; a step takes it out of the store only if it is a delete, a
\* delete_prefix or a put on the same key; and a put on the same key leaves
\* the payload, the content type and the expiry of the new put.
C39_WithoutTtl(key) ==
    key \in DOMAIN put_at /\ ~PositiveTtl(put_at[key].ttl_seconds)

C39_NoTtlNoExpiry ==
    /\ [](\A key \in Keys :
             C39_WithoutTtl(key) =>
                 /\ key \in DOMAIN _data
                 /\ _data[key].expires_at = None
                 /\ GetReturn(_data, now, key).hit
                 /\ ExistsReturn(_data, now, key))
    /\ [][\A key \in Keys :
             C39_WithoutTtl(key) =>
                 /\ (returned'.op = "get" /\ returned'.key = key) =>
                        returned'.value =
                            [hit |-> TRUE, data |-> _data[key].data,
                             content_type |-> _data[key].content_type]
                 /\ (returned'.op = "exists" /\ returned'.key = key) =>
                        returned'.value
                 /\ key \notin DOMAIN _data' =>
                        \/ returned'.op \in {"delete", "delete_prefix"}
                        \/ returned'.op = "put" /\ returned'.key = key
                 /\ \A blob \in Blobs : \A ttl_seconds \in Ttls :
                    \A elapsed \in {0, 2 * ClockStep} :
                       (/\ returned'.op = "put"
                        /\ returned'.key = key
                        /\ put(key, blob.data, blob.content_type,
                               ttl_seconds, elapsed)
                        /\ key \in DOMAIN _data')
                       => _data'[key] =
                              [data |-> blob.data,
                               content_type |-> blob.content_type,
                               expires_at |->
                                   IF PositiveTtl(ttl_seconds)
                                   THEN <<now + ttl_seconds[1]>>
                                   ELSE None]]_vars

\* A get hit on an entry put with ttl 0, later than any positive ttl of the
\* model would have lasted and after a sweep that ran since the put.
C39_Witness ==
    /\ returned.op = "get"
    /\ returned.value.hit
    /\ C39_WithoutTtl(returned.key)
    /\ put_at[returned.key].ttl_seconds = <<0>>
    /\ now > put_at[returned.key].time + ClockStep
    /\ _last_gc > put_at[returned.key].time

\* An entry with a ttl that was put on a key holding an entry without one.
C39_WitnessReplaced ==
    /\ returned.op = "put"
    /\ returned.key \in DOMAIN _data
    /\ _data[returned.key].expires_at # None
    /\ \E key \in Keys \ {returned.key} : C39_WithoutTtl(key)

====
